---- MODULE Spec2Model ----
(***************************************************************************)
(* Streaming reconstruction engine of the OpenAI-custom chat provider:     *)
(* the orchestrator's per-turn state (provider.ts), the two stream event   *)
(* parsers (adapters.ts) and the two tool-call reconstructors.             *)
(*                                                                         *)
(* Text is modelled by TLA+ strings, manipulated with Len, \o and SubSeq   *)
(* exactly as the TypeScript manipulates them with length, + and slice.    *)
(* An undefined string field (id, name, args) is the empty string: every   *)
(* test the code makes on those fields is a truthiness test, under which   *)
(* undefined and "" behave alike.                                          *)
(***************************************************************************)
EXTENDS Integers, Sequences, FiniteSets, TLC

(***************************************************************************)
(* Bounds of the model.                                                    *)
(***************************************************************************)
\* Turns the host starts on the provider instance.
MaxTurns == 2
\* SSE lines one response stream delivers.
MaxLines == 4
\* Complete lines one read chunk may hold.
MaxChunkLines == 2
\* Lines of the stream of a second call on the same provider.
MaxSecondLines == 2

(***************************************************************************)
(* String helpers (String.prototype.indexOf / startsWith / endsWith /      *)
(* slice), positions being 1-based here and 0-based in IndexOf's result.   *)
(***************************************************************************)
Char(s, i) == IF i >= 1 /\ i <= Len(s) THEN SubSeq(s, i, i) ELSE ""

\* s.slice(n)
Drop(s, n) == IF n >= Len(s) THEN "" ELSE SubSeq(s, n + 1, Len(s))

\* s.slice(0, n)
Take(s, n) == IF n <= 0 THEN "" ELSE IF n >= Len(s) THEN s ELSE SubSeq(s, 1, n)

StartsWithAt(s, t, i) ==
    /\ i >= 1
    /\ i + Len(t) - 1 <= Len(s)
    /\ (Len(t) = 0 \/ SubSeq(s, i, i + Len(t) - 1) = t)

StartsWith(s, t) == StartsWithAt(s, t, 1)

EndsWith(s, t) == Len(t) <= Len(s) /\ StartsWithAt(s, t, Len(s) - Len(t) + 1)

\* s.indexOf(t): the 0-based position of the first occurrence, or -1.
IndexOf(s, t) ==
    LET hits == {i \in 0..(Len(s) - Len(t)) : StartsWithAt(s, t, i + 1)}
    IN  IF hits = {} THEN -1 ELSE CHOOSE i \in hits : \A j \in hits : i <= j

Includes(s, t) == IndexOf(s, t) # -1

\* String.prototype.toLowerCase, for the letters A to Z.
UpperLetters == "ABCDEFGHIJKLMNOPQRSTUVWXYZ"
LowerLetters == "abcdefghijklmnopqrstuvwxyz"

LowerChar(c) ==
    IF c = "" \/ IndexOf(UpperLetters, c) = -1 THEN c
    ELSE Char(LowerLetters, IndexOf(UpperLetters, c) + 1)

\* The characters of s from lo to hi, in lower case.
RECURSIVE LowerRange(_, _, _)
LowerRange(s, lo, hi) ==
    IF lo > hi THEN ""
    ELSE IF lo = hi THEN LowerChar(Char(s, lo))
    ELSE LowerRange(s, lo, (lo + hi) \div 2) \o LowerRange(s, (lo + hi) \div 2 + 1, hi)

toLowerCase(s) == LowerRange(s, 1, Len(s))

(***************************************************************************)
(* JSON.  tryParseJSONObject lives in utils.ts; it is modelled as          *)
(* JSON.parse followed by the test that the value is an object.  The       *)
(* recogniser covers objects, arrays, strings with the single-character    *)
(* escapes, non-negative integers and the three literals.  The parsed      *)
(* value is represented by its canonical text, JSON.stringify(value):      *)
(* the text with the insignificant whitespace removed.                     *)
(***************************************************************************)
JsonWs == {" ", "\t", "\n", "\r"}
JsonDigits == {"0", "1", "2", "3", "4", "5", "6", "7", "8", "9"}
JsonEscapable == {"\"", "\\", "/", "b", "f", "n", "r", "t"}

RECURSIVE SkipWs(_, _)
SkipWs(s, i) == IF Char(s, i) \in JsonWs THEN SkipWs(s, i + 1) ELSE i

\* i is the position after the opening quote; the result is the position
\* after the closing quote, or 0 when the string does not end.
RECURSIVE StringEnd(_, _)
StringEnd(s, i) ==
    LET c == Char(s, i)
    IN  IF c = "" THEN 0
        ELSE IF c = "\"" THEN i + 1
        ELSE IF c = "\\"
             THEN IF Char(s, i + 1) \in JsonEscapable THEN StringEnd(s, i + 2) ELSE 0
        ELSE IF c \in {"\t", "\n", "\r"} THEN 0
        ELSE StringEnd(s, i + 1)

RECURSIVE DigitsEnd(_, _)
DigitsEnd(s, i) == IF Char(s, i) \in JsonDigits THEN DigitsEnd(s, i + 1) ELSE i

NumberEnd(s, i) ==
    IF Char(s, i) = "0" THEN i + 1
    ELSE IF Char(s, i) \in JsonDigits THEN DigitsEnd(s, i + 1)
    ELSE 0

\* ValueEnd(s, i): the position after the JSON value that starts at i, or 0.
RECURSIVE ValueEnd(_, _)
RECURSIVE MembersEnd(_, _)
RECURSIVE ElementsEnd(_, _)

\* j is where the first non-blank character after "{" is.
ObjectBody(s, j) == IF Char(s, j) = "}" THEN j + 1 ELSE MembersEnd(s, j)

\* j is where the first non-blank character after "[" is.
ArrayBody(s, j) == IF Char(s, j) = "]" THEN j + 1 ELSE ElementsEnd(s, j)

ValueEnd(s, i) ==
    IF Char(s, i) = "{" THEN ObjectBody(s, SkipWs(s, i + 1))
    ELSE IF Char(s, i) = "[" THEN ArrayBody(s, SkipWs(s, i + 1))
    ELSE IF Char(s, i) = "\"" THEN StringEnd(s, i + 1)
    ELSE IF StartsWithAt(s, "true", i) THEN i + 4
    ELSE IF StartsWithAt(s, "false", i) THEN i + 5
    ELSE IF StartsWithAt(s, "null", i) THEN i + 4
    ELSE NumberEnd(s, i)

\* After a member's value, which ends before e: "}" or "," and a member.
MembersNext(s, e) ==
    IF Char(s, e) = "}" THEN e + 1
    ELSE IF Char(s, e) = "," THEN MembersEnd(s, SkipWs(s, e + 1))
    ELSE 0

\* v is where the member's value ends, or 0.
MembersValue(s, v) == IF v = 0 THEN 0 ELSE MembersNext(s, SkipWs(s, v))

\* c is where the colon after the member's name must be.
MembersColon(s, c) ==
    IF Char(s, c) # ":" THEN 0 ELSE MembersValue(s, ValueEnd(s, SkipWs(s, c + 1)))

\* k is where the member's name ends, or 0.
MembersName(s, k) == IF k = 0 THEN 0 ELSE MembersColon(s, SkipWs(s, k))

\* The position after the "}" of the object whose members start at j, or 0.
MembersEnd(s, j) ==
    IF Char(s, j) # "\"" THEN 0 ELSE MembersName(s, StringEnd(s, j + 1))

\* After an element, which ends before e: "]" or "," and an element.
ElementsNext(s, e) ==
    IF Char(s, e) = "]" THEN e + 1
    ELSE IF Char(s, e) = "," THEN ElementsEnd(s, SkipWs(s, e + 1))
    ELSE 0

\* v is where the element ends, or 0.
ElementsValue(s, v) == IF v = 0 THEN 0 ELSE ElementsNext(s, SkipWs(s, v))

\* The position after the "]" of the array whose elements start at j, or 0.
ElementsEnd(s, j) == ElementsValue(s, ValueEnd(s, j))

\* e is where the value that starts the text ends, or 0.
IsWholeText(text, e) == e # 0 /\ SkipWs(text, e) = Len(text) + 1

\* i is where the text's first non-blank character is.
IsObjectFrom(text, i) == Char(text, i) = "{" /\ IsWholeText(text, ValueEnd(text, i))

\* JSON.parse(text) succeeds and yields an object that is no array.
IsJSONObjectText(text) == IsObjectFrom(text, SkipWs(text, 1))

\* JSON.stringify(JSON.parse(text)) for a text that parses: the whitespace
\* outside string literals is dropped.
RECURSIVE Canon(_, _, _)
Canon(s, i, inString) ==
    LET c == Char(s, i)
    IN  IF c = "" THEN ""
        ELSE IF inString
        THEN IF c = "\\" THEN c \o Char(s, i + 1) \o Canon(s, i + 2, TRUE)
             ELSE c \o Canon(s, i + 1, c # "\"")
        ELSE IF c \in JsonWs THEN Canon(s, i + 1, FALSE)
        ELSE c \o Canon(s, i + 1, c = "\"")

JSONStringify(text) == Canon(text, 1, FALSE)

\* { ok, value }: value is the parsed object, represented canonically.
ParseResult(text, ok) ==
    IF ok THEN [ok |-> TRUE, value |-> JSONStringify(text)] ELSE [ok |-> FALSE, value |-> ""]

tryParseJSONObject(text) == ParseResult(text, IsJSONObjectText(text))

(***************************************************************************)
(* Inline control tokens (processTextContent) and stripControlTokens.      *)
(***************************************************************************)
BEGIN == "<|tool_call_begin|>"
ARG_BEGIN == "<|tool_call_argument_begin|>"
END == "<|tool_call_end|>"

\* [a-zA-Z0-9_-]
WordChars ==
    {"a", "b", "c", "d", "e", "f", "g", "h", "i", "j", "k", "l", "m", "n", "o",
     "p", "q", "r", "s", "t", "u", "v", "w", "x", "y", "z",
     "A", "B", "C", "D", "E", "F", "G", "H", "I", "J", "K", "L", "M", "N", "O",
     "P", "Q", "R", "S", "T", "U", "V", "W", "X", "Y", "Z",
     "_", "-"} \cup JsonDigits

\* The position after the maximal run of characters of `chars` starting at i.
RECURSIVE RunEnd(_, _, _)
RunEnd(s, i, chars) == IF Char(s, i) \in chars THEN RunEnd(s, i + 1, chars) ELSE i

\* Length of the match of /<\|[a-zA-Z0-9_-]+_section_(?:begin|end)\|>/ at i, or 0.
\* "|" is no word character, so the word run after "<|" is the whole of
\* [a-zA-Z0-9_-]+_section_(begin|end) and must be followed by "|>".
SectionTokenAt(s, i) ==
    IF ~StartsWithAt(s, "<|", i) THEN 0
    ELSE LET e == RunEnd(s, i + 2, WordChars)
             run == IF e > i + 2 THEN SubSeq(s, i + 2, e - 1) ELSE ""
         IN  IF /\ StartsWithAt(s, "|>", e)
                /\ \/ EndsWith(run, "_section_begin") /\ Len(run) > Len("_section_begin")
                   \/ EndsWith(run, "_section_end") /\ Len(run) > Len("_section_end")
             THEN e + 2 - i
             ELSE 0

\* Length of the match of /<\|tool_call_(?:argument_)?(?:begin|end)\|>/ at i, or 0.
ToolTokenAt(s, i) ==
    IF StartsWithAt(s, "<|tool_call_begin|>", i) THEN Len("<|tool_call_begin|>")
    ELSE IF StartsWithAt(s, "<|tool_call_end|>", i) THEN Len("<|tool_call_end|>")
    ELSE IF StartsWithAt(s, "<|tool_call_argument_begin|>", i)
    THEN Len("<|tool_call_argument_begin|>")
    ELSE IF StartsWithAt(s, "<|tool_call_argument_end|>", i)
    THEN Len("<|tool_call_argument_end|>")
    ELSE 0

\* The matches of a pattern in s as <<start, length>> pairs.  A match starts
\* with "<" and holds no other "<", so no two matches overlap and every
\* match is one that replace(/.../g, "") removes.
SectionSpans(s) ==
    {<<p, SectionTokenAt(s, p)>> : p \in {q \in 1..Len(s) : SectionTokenAt(s, q) > 0}}

ToolSpans(s) ==
    {<<p, ToolTokenAt(s, p)>> : p \in {q \in 1..Len(s) : ToolTokenAt(s, q) > 0}}

\* The characters of s from lo to hi that no span covers.
RECURSIVE KeepOutside(_, _, _, _)
KeepOutside(s, spans, lo, hi) ==
    IF lo > hi THEN ""
    ELSE IF lo = hi
    THEN IF \E sp \in spans : sp[1] <= lo /\ lo < sp[1] + sp[2] THEN "" ELSE Char(s, lo)
    ELSE KeepOutside(s, spans, lo, (lo + hi) \div 2)
         \o KeepOutside(s, spans, (lo + hi) \div 2 + 1, hi)

\* text.replace(/.../g, ""), spans being the matches.
RemoveSpans(s, spans) == IF spans = {} THEN s ELSE KeepOutside(s, spans, 1, Len(s))

RemoveSectionTokens(s) == RemoveSpans(s, SectionSpans(s))

RemoveToolTokens(s) == RemoveSpans(s, ToolSpans(s))

stripControlTokens(text) == RemoveToolTokens(RemoveSectionTokens(text))

\* The immediately-invoked arrow function of processTextContent: the largest
\* k in 1..min(BEGIN.length - 1, data.length - 1) such that data ends with
\* the first k characters of BEGIN, or 0.
longestPartialPrefix(data) ==
    LET top == IF Len(BEGIN) - 1 < Len(data) - 1 THEN Len(BEGIN) - 1 ELSE Len(data) - 1
        ks == {k \in 1..top : EndsWith(data, Take(BEGIN, k))}
    IN  IF ks = {} THEN 0 ELSE CHOOSE k \in ks : \A j \in ks : j <= k

\* String.prototype.trim, for the blanks the model's texts contain.
RECURSIVE TrimStart(_)
TrimStart(s) == IF Char(s, 1) \in JsonWs THEN TrimStart(Drop(s, 1)) ELSE s

RECURSIVE TrimEnd(_)
TrimEnd(s) == IF Char(s, Len(s)) \in JsonWs THEN TrimEnd(Take(s, Len(s) - 1)) ELSE s

Trim(s) == TrimEnd(TrimStart(s))

DigitValue(c) ==
    CASE c = "0" -> 0 [] c = "1" -> 1 [] c = "2" -> 2 [] c = "3" -> 3 [] c = "4" -> 4
      [] c = "5" -> 5 [] c = "6" -> 6 [] c = "7" -> 7 [] c = "8" -> 8 [] OTHER -> 9

\* Number(digits) for a non-empty string of decimal digits.
RECURSIVE NumberOf(_)
NumberOf(digits) ==
    IF Len(digits) = 0 THEN 0
    ELSE 10 * NumberOf(Take(digits, Len(digits) - 1)) + DigitValue(Char(digits, Len(digits)))

\* header.match(/^([A-Za-z0-9_\-.]+)(?::(\d+))?/): the name, and the index
\* when ":digits" follows the name.  No match leaves both undefined.
ParseHeader(header) ==
    LET ne == RunEnd(header, 1, WordChars \cup {"."})
        name == Take(header, ne - 1)
        de == IF Char(header, ne) = ":" THEN RunEnd(header, ne + 1, JsonDigits) ELSE ne
        digits == IF de > ne + 1 THEN SubSeq(header, ne + 1, de - 1) ELSE ""
    IN  IF name = ""
        THEN [name |-> "", hasIndex |-> FALSE, index |-> 0]
        ELSE [name |-> name,
              hasIndex |-> digits # "",
              index |-> IF digits # "" THEN NumberOf(digits) ELSE 0]

(***************************************************************************)
(* Parts reported to the progress sink.  channel, hasIndex and index       *)
(* record where a tool-call part came from (the structured channel with    *)
(* its stream index, or the inline channel with its header index); the     *)
(* host does not see them.                                                 *)
(***************************************************************************)
TextPart(value) ==
    [kind |-> "text", value |-> value, callId |-> "", name |-> "", input |-> "",
     channel |-> "", hasIndex |-> FALSE, index |-> 0]

ToolCallPart(callId, name, input, channel, hasIndex, index) ==
    [kind |-> "toolcall", value |-> "", callId |-> callId, name |-> name, input |-> input,
     channel |-> channel, hasIndex |-> hasIndex, index |-> index]

\* LanguageModelDataPart.text(payload, mime): name holds the mime type.
DataPart(payload, mime) ==
    [kind |-> "data", value |-> payload, callId |-> "", name |-> mime, input |-> "",
     channel |-> "", hasIndex |-> FALSE, index |-> 0]

ThinkingPart(text, id) ==
    [kind |-> "thinking", value |-> text, callId |-> id, name |-> "", input |-> "",
     channel |-> "", hasIndex |-> FALSE, index |-> 0]

\* `call_${Math.random()...}` and `tct_${Math.random()...}`: a fresh id.
RandomCallId == "call_<random>"
RandomTextCallId == "tct_<random>"

report(t, part) == [t EXCEPT !.progress = Append(@, part)]

(***************************************************************************)
(* Tool-call reconstructor (structured channel).  _toolCallBuffers is a    *)
(* Map, iterated in insertion order: a sequence of entries.                *)
(***************************************************************************)
BufferPos(bufs, index) ==
    LET hits == {i \in 1..Len(bufs) : bufs[i].index = index}
    IN  IF hits = {} THEN 0 ELSE CHOOSE i \in hits : TRUE

\* Map.delete(index)
BufferDelete(bufs, index) ==
    LET p == BufferPos(bufs, index)
    IN  IF p = 0 THEN bufs
        ELSE [i \in 1..(Len(bufs) - 1) |-> IF i < p THEN bufs[i] ELSE bufs[i + 1]]

\* Map.set(index, buf): an existing key keeps its place.
BufferSet(bufs, buf) ==
    LET p == BufferPos(bufs, buf.index)
    IN  IF p = 0 THEN Append(bufs, buf) ELSE [bufs EXCEPT ![p] = buf]

\* Map.get(index) ?? { args: "" }
BufferGet(bufs, index) ==
    LET p == BufferPos(bufs, index)
    IN  IF p = 0 THEN [index |-> index, id |-> "", name |-> "", args |-> ""] ELSE bufs[p]

\* The emission of tryEmitBufferedToolCall and of flushToolCallBuffers: the
\* key is recorded, the part reported, the buffer deleted, the index completed.
EmitBuffered(t, index, id, name, value) ==
    [t EXCEPT !.emittedTextToolCallKeys = @ \cup {name \o ":" \o value},
              !.progress = Append(@, ToolCallPart(id, name, value, "structured", TRUE, index)),
              !.toolCallBuffers = BufferDelete(@, index),
              !.completedToolCallIndices = @ \cup {index}]

\* buf is the buffer of the index, canParse the parse of its arguments.
TryEmitParsed(t, buf, canParse) ==
    IF buf.name = "" THEN t
    ELSE IF ~canParse.ok THEN t
    ELSE EmitBuffered(t, buf.index, IF buf.id # "" THEN buf.id ELSE RandomCallId,
                      buf.name, canParse.value)

\* p is the place of the index's buffer, 0 when there is none.
TryEmitAt(t, p) ==
    IF p = 0 THEN t
    ELSE TryEmitParsed(t, t.toolCallBuffers[p], tryParseJSONObject(t.toolCallBuffers[p].args))

\* Variant: no eager emission, a buffer waits for the flush.
tryEmitDeferred(t, index) == t

tryEmitBufferedToolCall(t, index) == TryEmitAt(t, BufferPos(t.toolCallBuffers, index))

\* The loop of flushToolCallBuffers over Array.from(entries()).
RECURSIVE FlushEntries(_, _, _)

\* Variant: the flush reports an entry whatever its arguments are.
FlushEntryUnchecked(t, entries, throwOnInvalid, buf, parsed) ==
    FlushEntries(EmitBuffered(t, buf.index,
                              IF buf.id # "" THEN buf.id ELSE RandomCallId,
                              IF buf.name # "" THEN buf.name ELSE "unknown_tool",
                              IF parsed.ok THEN parsed.value ELSE buf.args),
                 Tail(entries), throwOnInvalid)

\* One iteration: buf is the entry, parsed the parse of its arguments.
FlushEntry(t, entries, throwOnInvalid, buf, parsed) ==
    IF ~parsed.ok
    THEN IF throwOnInvalid
         THEN [t EXCEPT !.thrown = "Invalid JSON for tool call"]
         ELSE FlushEntries(t, Tail(entries), throwOnInvalid)
    ELSE FlushEntries(EmitBuffered(t, buf.index,
                                   IF buf.id # "" THEN buf.id ELSE RandomCallId,
                                   IF buf.name # "" THEN buf.name ELSE "unknown_tool",
                                   parsed.value),
                      Tail(entries), throwOnInvalid)

FlushEntries(t, entries, throwOnInvalid) ==
    IF entries = <<>> THEN t
    ELSE FlushEntry(t, entries, throwOnInvalid, Head(entries),
                    tryParseJSONObject(Head(entries).args))

flushToolCallBuffers(t, throwOnInvalid) ==
    IF Len(t.toolCallBuffers) = 0 THEN t
    ELSE FlushEntries(t, t.toolCallBuffers, throwOnInvalid)

(***************************************************************************)
(* Inline tool-call tokenizer.                                             *)
(***************************************************************************)
NoTextTool ==
    [active |-> FALSE, name |-> "", hasIndex |-> FALSE, index |-> 0,
     argBuffer |-> "", emitted |-> FALSE]

\* The report of emitTextToolCallIfValid, the key recorded.
EmitTextTool(t, call, name, value) ==
    [t EXCEPT !.emittedTextToolCallKeys = @ \cup {name \o ":" \o value},
              !.progress = Append(@, ToolCallPart(RandomTextCallId, name, value,
                                                  "inline", call.hasIndex, call.index))]

\* Variant: no test of the identity set or of the key set.
EmitTextToolNoDedup(t, call, name, parsed) ==
    IF ~parsed.ok THEN [t |-> t, did |-> FALSE]
    ELSE [t |-> EmitTextTool(t, call, name, parsed.value), did |-> TRUE]

\* name is call.name ?? "unknown_tool", parsed the parse of argText.
EmitTextToolParsed(t, call, name, parsed) ==
    IF ~parsed.ok THEN [t |-> t, did |-> FALSE]
    ELSE IF call.hasIndex
    THEN IF (name \o ":" \o ToString(call.index)) \in t.emittedTextToolCallIds
         THEN [t |-> t, did |-> FALSE]
         ELSE [t |-> EmitTextTool([t EXCEPT !.emittedTextToolCallIds =
                                                @ \cup {name \o ":" \o ToString(call.index)}],
                                  call, name, parsed.value),
               did |-> TRUE]
    ELSE IF (name \o ":" \o parsed.value) \in t.emittedTextToolCallKeys
    THEN [t |-> t, did |-> FALSE]
    ELSE [t |-> EmitTextTool(t, call, name, parsed.value), did |-> TRUE]

\* The result holds the state and `did`, the value returned.
emitTextToolCallIfValid(t, call, argText) ==
    EmitTextToolParsed(t, call, IF call.name # "" THEN call.name ELSE "unknown_tool",
                       tryParseJSONObject(argText))

flushActiveTextToolCall(t) ==
    IF ~t.textToolActive.active THEN t
    ELSE IF ~tryParseJSONObject(t.textToolActive.argBuffer).ok THEN t
    ELSE [emitTextToolCallIfValid(t, t.textToolActive, t.textToolActive.argBuffer).t
              EXCEPT !.textToolActive = NoTextTool]

\* The while loop of processTextContent, one operator per branch.  Each
\* result holds the state, the local `data` as the loop leaves it and the
\* local `visibleOut`.
RECURSIVE TextLoop(_, _, _)

\* { name, index, argBuffer: "", emitted: false } of a parsed header.
OpenTextTool(h) ==
    [active |-> TRUE, name |-> h.name, hasIndex |-> h.hasIndex, index |-> h.index,
     argBuffer |-> "", emitted |-> FALSE]

\* No BEGIN in data; k is the longest partial BEGIN prefix data ends with.
TextNoBegin(t, data, visibleOut, k) ==
    IF k > 0
    THEN [t |-> [t EXCEPT !.textToolParserBuffer = Drop(data, Len(data) - k)],
          data |-> "",
          visibleOut |-> visibleOut \o stripControlTokens(Take(data, Len(data) - k))]
    ELSE [t |-> t, data |-> "", visibleOut |-> visibleOut \o stripControlTokens(data)]

\* The header ends with ARG_BEGIN at a: the call opens.
TextHeaderArg(t, d1, out1, a) ==
    TextLoop([t EXCEPT !.textToolActive = OpenTextTool(ParseHeader(Trim(Take(d1, a))))],
             Drop(d1, a + Len(ARG_BEGIN)), out1)

\* The header ends with END at e: a call without arguments, finalized at once.
TextHeaderEnd(t, d1, out1, e) ==
    TextLoop([emitTextToolCallIfValid(t, OpenTextTool(ParseHeader(Trim(Take(d1, e)))),
                                      "{}").t
                  EXCEPT !.textToolActive = NoTextTool],
             Drop(d1, e + Len(END)), out1)

\* d1 is the data after BEGIN; a and e are where ARG_BEGIN and END are in it.
TextHeader(t, d1, out1, a, e) ==
    IF a # -1 /\ (e = -1 \/ a < e) THEN TextHeaderArg(t, d1, out1, a)
    ELSE IF e # -1 THEN TextHeaderEnd(t, d1, out1, e)
    ELSE [t |-> [t EXCEPT !.textToolParserBuffer = BEGIN \o d1],
          data |-> "", visibleOut |-> out1]

\* No call is active; b is where BEGIN is in data.
TextOutside(t, data, visibleOut, b) ==
    IF b = -1
    THEN TextNoBegin(t, data, visibleOut, longestPartialPrefix(data))
    ELSE TextHeader(t, Drop(data, b + Len(BEGIN)),
                    visibleOut \o stripControlTokens(Take(data, b)),
                    IndexOf(Drop(data, b + Len(BEGIN)), ARG_BEGIN),
                    IndexOf(Drop(data, b + Len(BEGIN)), END))

\* if (!this._textToolActive.emitted) did = emitTextToolCallIfValid(...)
TextTryEmit(t) ==
    IF ~t.textToolActive.emitted
    THEN emitTextToolCallIfValid(t, t.textToolActive, t.textToolActive.argBuffer)
    ELSE [t |-> t, did |-> FALSE]

\* if (did) this._textToolActive.emitted = true
TextMarkEmitted(r) ==
    IF r.did THEN [r.t EXCEPT !.textToolActive.emitted = TRUE] ELSE r.t

\* A call is active; e2 is where END is in data.
TextInside(t, data, visibleOut, e2) ==
    IF e2 = -1
    THEN [t |-> TextMarkEmitted(TextTryEmit(
                    [t EXCEPT !.textToolActive.argBuffer = @ \o data])),
          data |-> "", visibleOut |-> visibleOut]
    ELSE TextLoop([TextTryEmit([t EXCEPT !.textToolActive.argBuffer =
                                             @ \o Take(data, e2)]).t
                       EXCEPT !.textToolActive = NoTextTool],
                  Drop(data, e2 + Len(END)), visibleOut)

TextLoop(t, data, visibleOut) ==
    IF Len(data) = 0 THEN [t |-> t, data |-> data, visibleOut |-> visibleOut]
    ELSE IF ~t.textToolActive.active
    THEN TextOutside(t, data, visibleOut, IndexOf(data, BEGIN))
    ELSE TextInside(t, data, visibleOut, IndexOf(data, END))

\* The end of processTextContent: r is what the loop left.
TextReport(r) ==
    IF Len(r.visibleOut) > 0
    THEN [t |-> [r.t EXCEPT !.progress = Append(@, TextPart(r.visibleOut)),
                            !.textToolParserBuffer = r.data],
          emittedText |-> TRUE]
    ELSE [t |-> [r.t EXCEPT !.textToolParserBuffer = r.data], emittedText |-> FALSE]

\* The result holds the state and the returned emittedText.
processTextContent(t, input) == TextReport(TextLoop(t, t.textToolParserBuffer \o input, ""))

(***************************************************************************)
(* Stream events (StreamEventResult) and SSE lines.                        *)
(*                                                                         *)
(* A line is described by what the parsers read of it: its kind ("event"   *)
(* for an `event:` line, "data" for a `data:` line, "other" otherwise),    *)
(* the trimmed text after `event:`, the shape of the data ("[DONE]",       *)
(* "json" for a payload JSON.parse accepts, "garbage" for one it rejects)  *)
(* and the fields of the parsed payload, an absent string field being "".  *)
(***************************************************************************)
Event(type) ==
    [type |-> type, content |-> "", index |-> 0, id |-> "", name |-> "", args |-> "",
     marker |-> "", reason |-> ""]

SkipEvent == Event("skip")
DoneEvent == Event("done")
TextEvent(content) == [Event("text") EXCEPT !.content = content]
ThinkingEvent(text, id) == [Event("thinking") EXCEPT !.content = text, !.id = id]
MarkerEvent(marker) == [Event("stateful_marker") EXCEPT !.marker = marker]
FinishEvent(reason) == [Event("finish") EXCEPT !.reason = reason]
ToolCallEvent(index, id, name, args) ==
    [Event("tool_call") EXCEPT !.index = index, !.id = id, !.name = name, !.args = args]

\* An item of the payload: `item` / `output_item`, or the last entry of `output`.
NoItem == [type |-> "", id |-> "", text |-> "", callId |-> "", name |-> "", args |-> ""]

\* The parsed payload.  Chat protocol: choices[0] (hasChoice), its
\* reasoning_content, delta.content, delta.tool_calls and finish_reason.
\* Items protocol: type, id, response.id, the delta's text, the top-level text,
\* the function call's call_id / name / arguments, the item, output_index and
\* the last entry of the output array.
NoPayload ==
    [type |-> "", hasChoice |-> FALSE, reasoning |-> "", content |-> "",
     toolCalls |-> <<>>, finish |-> "",
     id |-> "", responseId |-> "", deltaText |-> "", text |-> "",
     callId |-> "", name |-> "", args |-> "",
     item |-> NoItem, hasOutputIndex |-> FALSE, outputIndex |-> 0, lastOutput |-> NoItem]

OtherLine == [kind |-> "other", sse |-> "", raw |-> "", json |-> NoPayload]
EventLine(ev) == [kind |-> "event", sse |-> ev, raw |-> "", json |-> NoPayload]
DoneLine == [kind |-> "data", sse |-> "", raw |-> "[DONE]", json |-> NoPayload]
GarbageLine == [kind |-> "data", sse |-> "", raw |-> "garbage", json |-> NoPayload]
JsonLine(payload) == [kind |-> "data", sse |-> "", raw |-> "json", json |-> payload]

\* data: {"choices":[{"delta":{...},"finish_reason":...}]}
ChatChunk(content, toolCalls, finish) ==
    JsonLine([NoPayload EXCEPT !.hasChoice = TRUE, !.content = content,
                               !.toolCalls = toolCalls, !.finish = finish])

\* One entry of delta.tool_calls.
ChatToolCall(index, id, name, args) ==
    [hasIndex |-> TRUE, index |-> index, id |-> id, name |-> name, args |-> args]

(***************************************************************************)
(* Parsers.  The adapter is the parser's per-connection state; a chat      *)
(* adapter has none, its fields stay as created.                           *)
(***************************************************************************)
NewAdapter(kind) ==
    [kind |-> kind,
     toolCallIndexById |-> {},
     nextToolCallIndex |-> 0,
     sawOutputTextDelta |-> FALSE,
     lastSseEventType |-> "",
     emittedTextItemKeys |-> {}]

\* createAdapter(config)
createAdapter(apiMode) ==
    IF apiMode = "responses" THEN NewAdapter("responses") ELSE NewAdapter("chat")

\* ChatCompletionsAdapter.parseStreamEvent
ChatParseStreamEvent(line) ==
    IF line.kind # "data" THEN SkipEvent
    ELSE IF line.raw = "[DONE]" THEN DoneEvent
    ELSE IF line.raw # "json" THEN SkipEvent
    ELSE LET j == line.json
         IN  IF ~j.hasChoice THEN SkipEvent
             ELSE IF j.reasoning # "" THEN ThinkingEvent(j.reasoning, "")
             ELSE IF j.content # "" THEN TextEvent(j.content)
             ELSE IF Len(j.toolCalls) > 0
             THEN LET tc == j.toolCalls[1]
                  IN  ToolCallEvent(IF tc.hasIndex THEN tc.index ELSE 0,
                                    tc.id, tc.name, tc.args)
             ELSE IF j.finish # "" THEN FinishEvent(j.finish)
             ELSE SkipEvent

\* Variant: every event allocates the next index, seen before or not.
getToolCallIndexAlwaysNext(a, callId) ==
    IF callId = "" THEN [adapter |-> a, index |-> 0]
    ELSE [adapter |-> [a EXCEPT !.toolCallIndexById =
                                    @ \cup {<<callId, a.nextToolCallIndex>>},
                                !.nextToolCallIndex = @ + 1],
          index |-> a.nextToolCallIndex]

\* ResponsesAdapter.getToolCallIndex: the adapter after the call, and the index.
getToolCallIndex(a, callId) ==
    IF callId = "" THEN [adapter |-> a, index |-> 0]
    ELSE IF \E e \in a.toolCallIndexById : e[1] = callId
    THEN [adapter |-> a,
          index |-> (CHOOSE e \in a.toolCallIndexById : e[1] = callId)[2]]
    ELSE [adapter |-> [a EXCEPT !.toolCallIndexById = @ \cup {<<callId, a.nextToolCallIndex>>},
                                !.nextToolCallIndex = @ + 1],
          index |-> a.nextToolCallIndex]

\* The tool_call event of a function call with the given call id.
FunctionCallEvent(a, callId, name, args) ==
    LET r == getToolCallIndex(a, callId)
    IN  [adapter |-> r.adapter, event |-> ToolCallEvent(r.index, callId, name, args)]

\* The key of a text item: its id, else `output_index:${n}`, else none.
TextItemKey(j) ==
    IF j.item.id # "" THEN j.item.id
    ELSE IF j.hasOutputIndex THEN "output_index:" \o ToString(j.outputIndex)
    ELSE ""

\* The trailing `output` array of less conformant servers.
ResponsesOutputFallback(a, j) ==
    LET last == j.lastOutput
    IN  IF last.type = "" THEN [adapter |-> a, event |-> SkipEvent]
        ELSE IF ~a.sawOutputTextDelta /\ last.type \in {"output_text", "message"}
                /\ last.text # ""
        THEN [adapter |-> a, event |-> TextEvent(last.text)]
        ELSE IF last.type = "function_call"
        THEN FunctionCallEvent(a, last.callId, last.name, last.args)
        ELSE [adapter |-> a, event |-> SkipEvent]

\* The output_item.added / output_item.done branch; falls through to the
\* output fallback when it returns nothing.
ResponsesOutputItem(a, j) ==
    LET it == j.item
        key == TextItemKey(j)
    IN  IF it.type = "function_call"
        THEN FunctionCallEvent(a, it.callId, it.name, it.args)
        ELSE IF ~a.sawOutputTextDelta /\ it.type \in {"output_text", "message"}
                /\ it.text # ""
        THEN IF key # "" /\ key \in a.emittedTextItemKeys
             THEN [adapter |-> a, event |-> SkipEvent]
             ELSE [adapter |-> IF key # ""
                               THEN [a EXCEPT !.emittedTextItemKeys = @ \cup {key}]
                               ELSE a,
                   event |-> TextEvent(it.text)]
        ELSE ResponsesOutputFallback(a, j)

\* ResponsesAdapter.parseStreamEvent: the adapter after the line, and the event.
ResponsesParseStreamEvent(a, line) ==
    IF line.kind = "event"
    THEN [adapter |-> [a EXCEPT !.lastSseEventType =
                          IF line.sse # "" THEN line.sse ELSE "message"],
          event |-> SkipEvent]
    ELSE IF line.kind # "data" THEN [adapter |-> a, event |-> SkipEvent]
    ELSE IF line.raw = "[DONE]" THEN [adapter |-> a, event |-> DoneEvent]
    ELSE IF line.raw # "json" THEN [adapter |-> a, event |-> SkipEvent]
    ELSE LET j == line.json
             sseType == a.lastSseEventType
             eventType == IF sseType # "" /\ sseType # "message" THEN sseType ELSE j.type
             rid == IF j.responseId # "" THEN j.responseId ELSE j.id
             doneText == IF j.deltaText # "" THEN j.deltaText ELSE j.text
         IN  IF eventType = "response.completed"
             THEN [adapter |-> a,
                   event |-> IF rid # "" THEN MarkerEvent(rid) ELSE DoneEvent]
             ELSE IF eventType = "response.done"
             THEN [adapter |-> a, event |-> DoneEvent]
             ELSE IF eventType = "response.output_text.delta" /\ j.deltaText # ""
             THEN [adapter |-> [a EXCEPT !.sawOutputTextDelta = TRUE],
                   event |-> TextEvent(j.deltaText)]
             ELSE IF eventType = "response.output_text.done" /\ a.sawOutputTextDelta
             THEN [adapter |-> a, event |-> SkipEvent]
             ELSE IF eventType = "response.output_text.done" /\ doneText # ""
             THEN [adapter |-> a, event |-> TextEvent(doneText)]
             ELSE IF /\ eventType \in {"response.reasoning_summary.delta",
                                       "response.reasoning_summary.done",
                                       "response.reasoning.delta",
                                       "response.reasoning.done"}
                     /\ doneText # ""
             THEN [adapter |-> a, event |-> ThinkingEvent(doneText, j.id)]
             ELSE IF eventType \in {"response.function_call.delta",
                                    "response.function_call_arguments.delta"}
             THEN FunctionCallEvent(a, j.callId, j.name, j.args)
             ELSE IF eventType \in {"response.output_item.added",
                                    "response.output_item.done"}
             THEN ResponsesOutputItem(a, j)
             ELSE ResponsesOutputFallback(a, j)

parseStreamEvent(a, line) ==
    IF a.kind = "responses" THEN ResponsesParseStreamEvent(a, line)
    ELSE [adapter |-> a, event |-> ChatParseStreamEvent(line)]

\* Variant: the body is searched as it is, not in lower case.
isUnsupportedErrorCaseSensitive(a, status, errorText) ==
    IF a.kind # "responses" THEN FALSE
    ELSE \/ status \in {404, 405, 501}
         \/ Includes(errorText, "not found")
         \/ Includes(errorText, "not supported")
         \/ Includes(errorText, "not implemented")
         \/ Includes(errorText, "unknown endpoint")

\* ChatCompletionsAdapter.isUnsupportedError and ResponsesAdapter.isUnsupportedError
isUnsupportedError(a, status, errorText) ==
    IF a.kind # "responses" THEN FALSE
    ELSE \/ status \in {404, 405, 501}
         \/ Includes(toLowerCase(errorText), "not found")
         \/ Includes(toLowerCase(errorText), "not supported")
         \/ Includes(toLowerCase(errorText), "not implemented")
         \/ Includes(toLowerCase(errorText), "unknown endpoint")

(***************************************************************************)
(* Conversations and request builders.  A message is the sequence of its   *)
(* parts; of a part the builders and the estimate read its kind ("text",   *)
(* or "data" for a LanguageModelDataPart), its text or decoded data, and   *)
(* its mime type.  Of a request the model keeps the protocol of the        *)
(* endpoint, body.previous_response_id ("" when absent) and the messages   *)
(* the body's messages or input are converted from.                        *)
(***************************************************************************)
TextMessagePart(value) == [kind |-> "text", value |-> value, mime |-> ""]

DataMessagePart(data, mime) == [kind |-> "data", value |-> data, mime |-> mime]

\* No marker found: extractPreviousResponseId returns undefined.
NoStateful == [found |-> FALSE, previous_response_id |-> "", sliceFromMessageIndex |-> 0]

\* Variant: a marker is taken whatever model id it names.
MarkerOfPartAnyModel(part, i, modelId, last) ==
    IF part.kind # "data" \/ part.mime # "stateful_marker" THEN last
    ELSE IF IndexOf(part.value, "\\") <= 0 THEN last
    ELSE [found |-> TRUE,
          previous_response_id |-> Drop(part.value, IndexOf(part.value, "\\") + 1),
          sliceFromMessageIndex |-> i + 1]

\* One part of message i (0-based): last is the marker found so far.
MarkerOfPart(part, i, modelId, last) ==
    IF part.kind # "data" \/ part.mime # "stateful_marker" THEN last
    ELSE LET raw == part.value
             sep == IndexOf(raw, "\\")
         IN  IF sep <= 0 THEN last
             ELSE IF Take(raw, sep) = "" \/ Drop(raw, sep + 1) = "" THEN last
             ELSE IF Take(raw, sep) # modelId THEN last
             ELSE [found |-> TRUE, previous_response_id |-> Drop(raw, sep + 1),
                   sliceFromMessageIndex |-> i + 1]

\* The inner loop over the parts of message i, from part k on.
RECURSIVE MarkerOfParts(_, _, _, _, _)
MarkerOfParts(parts, k, i, modelId, last) ==
    IF k > Len(parts) THEN last
    ELSE MarkerOfParts(parts, k + 1, i, modelId, MarkerOfPart(parts[k], i, modelId, last))

\* The outer loop over the messages, from message i (0-based) on.
RECURSIVE MarkerOfMessages(_, _, _, _)
MarkerOfMessages(messages, i, modelId, last) ==
    IF i >= Len(messages) THEN last
    ELSE MarkerOfMessages(messages, i + 1, modelId,
                          MarkerOfParts(messages[i + 1], 1, i, modelId, last))

\* ResponsesAdapter.extractPreviousResponseId
extractPreviousResponseId(messages, modelId) ==
    MarkerOfMessages(messages, 0, modelId, NoStateful)

\* messages.slice(n)
SliceFrom(messages, n) == SubSeq(messages, n + 1, Len(messages))

\* Variant: a trailing slash is kept.
KeepTrailingSlash(s) == s

\* endpoint.replace(/\/$/, "")
StripTrailingSlash(s) == IF EndsWith(s, "/") THEN Take(s, Len(s) - 1) ELSE s

\* The endpoint either builder makes of config.baseUrl for its resource path
\* ("/chat/completions" or "/responses").
EndpointFor(baseUrl, resource) ==
    IF EndsWith(baseUrl, resource) THEN baseUrl
    ELSE IF EndsWith(StripTrailingSlash(baseUrl), "/v1")
    THEN StripTrailingSlash(baseUrl) \o resource
    ELSE IF ~Includes(StripTrailingSlash(baseUrl), "/v1")
    THEN StripTrailingSlash(baseUrl) \o "/v1" \o resource
    ELSE StripTrailingSlash(baseUrl) \o resource

\* ResponsesAdapter.buildRequest, stateful being what the scan returned.  Of a
\* request: endpoint names the protocol, url is the endpoint string, stream
\* the body's field.
ResponsesRequest(messages, stateful, config) ==
    [endpoint |-> "responses",
     url |-> EndpointFor(config.baseUrl, "/responses"),
     stream |-> TRUE,
     previous_response_id |-> stateful.previous_response_id,
     messages |-> IF stateful.found
                  THEN SliceFrom(messages, stateful.sliceFromMessageIndex)
                  ELSE messages]

\* ChatCompletionsAdapter.buildRequest
ChatRequest(messages, config) ==
    [endpoint |-> "chat_completions",
     url |-> EndpointFor(config.baseUrl, "/chat/completions"),
     stream |-> TRUE,
     previous_response_id |-> "",
     messages |-> messages]

\* adapter.buildRequest(messages, options, config); id is config.id.
buildRequest(a, messages, config, id) ==
    IF a.kind = "responses"
    THEN ResponsesRequest(messages,
                          IF config.supportsStatefulResponses
                          THEN extractPreviousResponseId(messages, id)
                          ELSE NoStateful,
                          config)
    ELSE ChatRequest(messages, config)

\* Math.ceil(n / 4)
CeilQuarter(n) == (n + 3) \div 4

\* estimateMessagesTokens: the text parts only.
RECURSIVE EstimatePartsTokens(_, _)
EstimatePartsTokens(parts, k) ==
    IF k > Len(parts) THEN 0
    ELSE (IF parts[k].kind = "text" THEN CeilQuarter(Len(parts[k].value)) ELSE 0)
         + EstimatePartsTokens(parts, k + 1)

RECURSIVE estimateMessagesTokens(_)
estimateMessagesTokens(msgs) ==
    IF msgs = <<>> THEN 0
    ELSE EstimatePartsTokens(Head(msgs), 1) + estimateMessagesTokens(Tail(msgs))

\* options.tools.length > 128
MaxTools == 128

\* Variant: the tokens of the tools are not counted.
ValidationErrorMessagesOnly(found, valid, c) ==
    IF ~found THEN "OpenAI Custom model config not found"
    ELSE IF ~valid THEN "validateRequest"
    ELSE IF c.tools > MaxTools THEN "Cannot have more than 128 tools per request."
    ELSE IF estimateMessagesTokens(c.messages)
                > (IF c.maxInputTokens > 1 THEN c.maxInputTokens ELSE 1)
    THEN "Message exceeds token limit."
    ELSE ""

\* The Error the validations of provideLanguageModelChatResponse throw, "" when
\* none: found is whether the model has a configuration, valid whether
\* validateRequest accepts the messages; c is the call (its messages, the
\* number of tools, the estimate of their tokens, model.maxInputTokens).
ValidationError(found, valid, c) ==
    IF ~found THEN "OpenAI Custom model config not found"
    ELSE IF ~valid THEN "validateRequest"
    ELSE IF c.tools > MaxTools THEN "Cannot have more than 128 tools per request."
    ELSE IF estimateMessagesTokens(c.messages) + c.toolTokens
                > (IF c.maxInputTokens > 1 THEN c.maxInputTokens ELSE 1)
    THEN "Message exceeds token limit."
    ELSE ""

(***************************************************************************)
(* State.                                                                  *)
(***************************************************************************)
VARIABLES
    \* Fields of OpenAICustomChatModelProvider.
    modelConfig,
    toolCallBuffers,
    completedToolCallIndices,
    hasEmittedAssistantText,
    emittedBeginToolCallsHint,
    textToolParserBuffer,
    textToolActive,
    emittedTextToolCallKeys,
    emittedTextToolCallIds,
    \* The turn in progress: the model id, the local modelConfigInfo, whether
    \* the turn may still write to it and the table still holds that object,
    \* the adapter in use, the cancellation token, where
    \* provideLanguageModelChatResponse is, and the HTTP requests it has issued.
    modelId,
    modelConfigInfo,
    configInTable,
    adapter,
    cancelRequested,
    phase,
    requests,
    \* The response stream: lines handled so far, and complete lines of the
    \* chunk just read that the for loop has still to handle.
    lines,
    linesLeft,
    \* The host: whether vscode has LanguageModelThinkingPart, the parts the
    \* progress sink received in this turn, how the turn ended.
    thinkingSupported,
    progress,
    outcome,
    \* Observation: turns started, the event the last line was parsed to, the
    \* contents of the text events of this turn in order, and what the turn
    \* found when it started (the identity set and the adapter the turn before
    \* had left).
    turns,
    lastEvent,
    textDeltas,
    staleAtStart,
    \* The call of provideLanguageModelChatResponse (its messages, the number
    \* of tools, the estimate of the tools' tokens, model.maxInputTokens), the
    \* requests makeRequest has issued in this turn in order, and the fallback
    \* warnings shown in this turn and since the provider was constructed.
    call,
    sent,
    warnings,
    \* A second call of provideLanguageModelChatResponse on the same provider
    \* while the first is in its stream: where it is, the parts its own
    \* progress sink received, the lines it has handled.
    second,
    \* The response to the turn's first request: whether it is ok, its status
    \* and the text of its body.
    response,
    \* The stream loop has found the token not cancelled and awaits
    \* reader.read().
    reading,
    \* The bytes of the response body with the number of them reader.read()
    \* has delivered, and the local `buffer` of processStreamingResponse: the
    \* text after the last newline read.
    responseBody,
    buffer

providerVars ==
    <<toolCallBuffers, completedToolCallIndices, hasEmittedAssistantText,
      emittedBeginToolCallsHint, textToolParserBuffer, textToolActive,
      emittedTextToolCallKeys, emittedTextToolCallIds>>

configVars == <<modelConfig, modelConfigInfo, configInTable>>

vars ==
    <<modelConfig, toolCallBuffers, completedToolCallIndices, hasEmittedAssistantText,
      emittedBeginToolCallsHint, textToolParserBuffer, textToolActive,
      emittedTextToolCallKeys, emittedTextToolCallIds,
      modelId, modelConfigInfo, configInTable, adapter, cancelRequested, phase, requests,
      lines, linesLeft, thinkingSupported, progress, outcome, turns, lastEvent,
      textDeltas, staleAtStart, call, sent, warnings, second, response, reading, responseBody, buffer>>

\* The provider's fields and the progress sink as one record, which the
\* operators above transform; thrown is the message of an Error thrown.
This ==
    [toolCallBuffers |-> toolCallBuffers,
     completedToolCallIndices |-> completedToolCallIndices,
     hasEmittedAssistantText |-> hasEmittedAssistantText,
     emittedBeginToolCallsHint |-> emittedBeginToolCallsHint,
     textToolParserBuffer |-> textToolParserBuffer,
     textToolActive |-> textToolActive,
     emittedTextToolCallKeys |-> emittedTextToolCallKeys,
     emittedTextToolCallIds |-> emittedTextToolCallIds,
     progress |-> progress,
     thrown |-> ""]

Commit(t) ==
    /\ toolCallBuffers' = t.toolCallBuffers
    /\ completedToolCallIndices' = t.completedToolCallIndices
    /\ hasEmittedAssistantText' = t.hasEmittedAssistantText
    /\ emittedBeginToolCallsHint' = t.emittedBeginToolCallsHint
    /\ textToolParserBuffer' = t.textToolParserBuffer
    /\ textToolActive' = t.textToolActive
    /\ emittedTextToolCallKeys' = t.emittedTextToolCallKeys
    /\ emittedTextToolCallIds' = t.emittedTextToolCallIds
    /\ progress' = t.progress

(***************************************************************************)
(* processStreamingResponse: the body of the for loop over the lines.      *)
(***************************************************************************)
\* Variant: the hint does not depend on text having been emitted.
BeginToolCallsHintWithoutText(t) ==
    IF ~t.emittedBeginToolCallsHint
    THEN [t EXCEPT !.progress = Append(@, TextPart(" ")),
                   !.emittedBeginToolCallsHint = TRUE]
    ELSE t

\* The whitespace hint before the first tool call that follows text.
BeginToolCallsHint(t) ==
    IF ~t.emittedBeginToolCallsHint /\ t.hasEmittedAssistantText
    THEN [t EXCEPT !.progress = Append(@, TextPart(" ")),
                   !.emittedBeginToolCallsHint = TRUE]
    ELSE t

\* buf with the event's id and name set and its arguments appended.
BufferMerge(buf, event) ==
    [buf EXCEPT !.id = IF event.id # "" THEN event.id ELSE @,
                !.name = IF event.name # "" THEN event.name ELSE @,
                !.args = IF event.args # "" THEN @ \o event.args ELSE @]

\* Variant: no test of the completed indices.
BufferToolCallAlways(t, event) ==
    tryEmitBufferedToolCall(
        [t EXCEPT !.toolCallBuffers =
             BufferSet(@, BufferMerge(BufferGet(@, event.index), event))],
        event.index)

\* The tool_call branch after the hint.
BufferToolCall(t, event) ==
    IF event.index \in t.completedToolCallIndices THEN t
    ELSE tryEmitBufferedToolCall(
             [t EXCEPT !.toolCallBuffers =
                  BufferSet(@, BufferMerge(BufferGet(@, event.index), event))],
             event.index)

\* event.type === "tool_call"
onToolCall(t, event) == BufferToolCall(BeginToolCallsHint(t), event)

\* if (res.emittedText) this._hasEmittedAssistantText = true
TextEmitted(res) ==
    IF res.emittedText THEN [res.t EXCEPT !.hasEmittedAssistantText = TRUE] ELSE res.t

\* event.type === "text"
onText(t, event) == TextEmitted(processTextContent(t, event.content))

\* event.type === "thinking"
onThinking(t, event, supported) ==
    IF supported THEN report(t, ThinkingPart(event.content, event.id)) ELSE t

\* Variant: the flush on finish does not throw.
onFinishSilent(t, event) ==
    IF event.reason = "tool_calls" \/ event.reason = "stop"
    THEN flushToolCallBuffers(t, FALSE)
    ELSE t

\* event.type === "finish"
onFinish(t, event) ==
    IF event.reason = "tool_calls" \/ event.reason = "stop"
    THEN flushToolCallBuffers(t, TRUE)
    ELSE t

\* event.type === "done"
onDone(t) == flushActiveTextToolCall(flushToolCallBuffers(t, FALSE))

\* event.type === "stateful_marker"
onStatefulMarker(t, event, model) ==
    onDone(report(t, DataPart(model \o "\\" \o event.marker, "stateful_marker")))

routeEvent(t, event, model, supported) ==
    IF event.type = "skip" THEN t
    ELSE IF event.type = "done" THEN onDone(t)
    ELSE IF event.type = "stateful_marker" THEN onStatefulMarker(t, event, model)
    ELSE IF event.type = "text" THEN onText(t, event)
    ELSE IF event.type = "thinking" THEN onThinking(t, event, supported)
    ELSE IF event.type = "tool_call" THEN onToolCall(t, event)
    ELSE IF event.type = "finish" THEN onFinish(t, event)
    ELSE t

\* The finally block of processStreamingResponse.
streamFinally(t) ==
    [t EXCEPT !.toolCallBuffers = <<>>,
              !.completedToolCallIndices = {},
              !.hasEmittedAssistantText = FALSE,
              !.emittedBeginToolCallsHint = FALSE,
              !.textToolParserBuffer = "",
              !.textToolActive = NoTextTool,
              !.emittedTextToolCallKeys = {}]

\* Variant: the reset forgets the identity set, as the finally block does.
resetTurnStateStale(t) ==
    [t EXCEPT !.toolCallBuffers = <<>>,
              !.completedToolCallIndices = {},
              !.hasEmittedAssistantText = FALSE,
              !.emittedBeginToolCallsHint = FALSE,
              !.textToolParserBuffer = "",
              !.textToolActive = NoTextTool,
              !.emittedTextToolCallKeys = {}]

\* The assignments that open provideLanguageModelChatResponse.
resetTurnState(t) ==
    [t EXCEPT !.toolCallBuffers = <<>>,
              !.completedToolCallIndices = {},
              !.hasEmittedAssistantText = FALSE,
              !.emittedBeginToolCallsHint = FALSE,
              !.textToolParserBuffer = "",
              !.textToolActive = NoTextTool,
              !.emittedTextToolCallKeys = {},
              !.emittedTextToolCallIds = {}]

(***************************************************************************)
(* The configuration file and the models the host may ask for.             *)
(***************************************************************************)
\* The ids of the models of the configuration file: "m1" speaks the chat
\* protocol, "m2" the items protocol with the fallback enabled, "m3" and
\* "m3\x" (an id with a backslash in it) the items protocol without fallback.
ModelIds == {"m1", "m2", "m3", "m3\\x"}

\* One entry of `models`: the fields the orchestrator reads.  An absent
\* supportsStatefulResponses reads as true (?? true).  Every model of the
\* file has the base URL baseUrl.
ConfigFileAt(baseUrl) ==
    [m \in ModelIds |->
        IF m = "m1"
        THEN [apiMode |-> "chat_completions", supportsStatefulResponses |-> TRUE,
              fallbackToChatCompletions |-> FALSE, baseUrl |-> baseUrl]
        ELSE [apiMode |-> "responses", supportsStatefulResponses |-> TRUE,
              fallbackToChatCompletions |-> (m = "m2"), baseUrl |-> baseUrl]]

ConfigFile == ConfigFileAt("h/v1")

\* No model configuration: the turn has none (yet).
NoConfig ==
    [apiMode |-> "", supportsStatefulResponses |-> FALSE, fallbackToChatCompletions |-> FALSE,
     baseUrl |-> ""]

\* No event: the turn has parsed no line.
NoEvent == Event("none")

\* No adapter: no turn has created one.
NoAdapter == NewAdapter("none")

\* A call with no message and no tool, for a model with no input limit set.
DefaultCall == [messages |-> <<>>, tools |-> 0, toolTokens |-> 0, maxInputTokens |-> 0]

\* No response yet, an ok response, and a response that is not ok.
NoResponse == [ok |-> FALSE, status |-> 0, errorText |-> ""]

OkResponse == [ok |-> TRUE, status |-> 200, errorText |-> ""]

FailedResponse(status, errorText) == [ok |-> FALSE, status |-> status, errorText |-> errorText]

\* No response body: no bytes, none read.
NoBody == [bytes |-> "", read |-> 0]

\* No second call is in progress.
NoSecond == [phase |-> "idle", progress |-> <<>>, lines |-> 0]

(***************************************************************************)
(* Initial state: a provider just constructed, no turn started.            *)
(***************************************************************************)
Init ==
    /\ modelConfig = [m \in {} |-> NoConfig]
    /\ toolCallBuffers = <<>>
    /\ completedToolCallIndices = {}
    /\ hasEmittedAssistantText = FALSE
    /\ emittedBeginToolCallsHint = FALSE
    /\ textToolParserBuffer = ""
    /\ textToolActive = NoTextTool
    /\ emittedTextToolCallKeys = {}
    /\ emittedTextToolCallIds = {}
    /\ modelId = ""
    /\ modelConfigInfo = NoConfig
    /\ configInTable = FALSE
    /\ adapter = NoAdapter
    /\ cancelRequested = FALSE
    /\ phase = "idle"
    /\ requests = 0
    /\ lines = 0
    /\ linesLeft = 0
    /\ thinkingSupported = TRUE
    /\ progress = <<>>
    /\ outcome = ""
    /\ turns = 0
    /\ lastEvent = NoEvent
    /\ textDeltas = <<>>
    /\ staleAtStart = [ids |-> {}, adapter |-> NoAdapter]
    /\ call = DefaultCall
    /\ sent = <<>>
    /\ warnings = [turn |-> 0, session |-> 0]
    /\ second = NoSecond
    /\ response = NoResponse
    /\ reading = FALSE
    /\ responseBody = NoBody
    /\ buffer = ""

(***************************************************************************)
(* Actions.                                                                *)
(***************************************************************************)
\* prepareLanguageModelChatInformation: the table is rebuilt from the file,
\* so the object a turn in progress holds is no longer the table's.  (The
\* turn writes to its configuration only when it handles the first response:
\* configInTable is false from then on.)
PrepareInformationFrom(file) ==
    /\ modelConfig' = file
    /\ configInTable' = FALSE
    /\ UNCHANGED <<providerVars, modelId, modelConfigInfo, adapter, cancelRequested, phase,
                   requests, lines, linesLeft, thinkingSupported, progress, outcome,
                   turns, lastEvent, textDeltas, staleAtStart, call, sent, warnings, second,
                   response, reading, responseBody, buffer>>

\* The configuration file is ConfigFile.
PrepareInformation == PrepareInformationFrom(ConfigFile)

\* provideLanguageModelChatResponse up to its first await: the per-turn state
\* is reset; a model without configuration or a call that fails a validation
\* (validateRequest, the tool count, the token limit) throws; otherwise the
\* adapter is created, the request built and issued.
ProvideResponse(model, c, error) ==
    /\ phase = "idle"
    /\ second.phase # "streaming"
    /\ turns < MaxTurns
    /\ staleAtStart' = [ids |-> emittedTextToolCallIds, adapter |-> adapter]
    /\ Commit([resetTurnState(This) EXCEPT !.progress = <<>>])
    /\ modelId' = model
    /\ cancelRequested' = FALSE
    /\ lines' = 0
    /\ linesLeft' = 0
    /\ turns' = turns + 1
    /\ lastEvent' = NoEvent
    /\ textDeltas' = <<>>
    /\ call' = c
    /\ warnings' = [warnings EXCEPT !.turn = 0]
    /\ second' = NoSecond
    /\ response' = NoResponse
    /\ reading' = FALSE
    /\ responseBody' = NoBody
    /\ buffer' = ""
    /\ IF error = ""
       THEN /\ modelConfigInfo' = modelConfig[model]
            /\ configInTable' = TRUE
            /\ adapter' = createAdapter(modelConfig[model].apiMode)
            /\ sent' = <<buildRequest(createAdapter(modelConfig[model].apiMode),
                                      c.messages, modelConfig[model], model)>>
            /\ phase' = "requesting"
            /\ requests' = 1
            /\ outcome' = ""
       ELSE /\ modelConfigInfo' = IF model \in DOMAIN modelConfig
                                  THEN modelConfig[model] ELSE NoConfig
            /\ configInTable' = FALSE
            /\ sent' = <<>>
            /\ phase' = "idle"
            /\ requests' = 0
            /\ outcome' = "failed"
            /\ UNCHANGED adapter
    /\ UNCHANGED <<modelConfig, thinkingSupported>>

\* A call for model with the messages and options of c; valid is whether
\* validateRequest accepts the messages.
StartTurnWith(model, valid, c) ==
    ProvideResponse(model, c, ValidationError(model \in DOMAIN modelConfig, valid, c))

\* A call with no message and no tool.
StartTurn(model, valid) == StartTurnWith(model, valid, DefaultCall)

\* The first response is ok: with a body processStreamingResponse starts,
\* without one the turn throws.
ResponseOk(hasBody) ==
    /\ phase = "requesting"
    /\ phase' = IF hasBody THEN "streaming" ELSE "idle"
    /\ outcome' = IF hasBody THEN outcome ELSE "failed"
    /\ configInTable' = FALSE
    /\ response' = OkResponse
    /\ UNCHANGED <<providerVars, modelConfig, modelConfigInfo, modelId, adapter, cancelRequested, requests,
                   lines, linesLeft, thinkingSupported, progress, turns, lastEvent, textDeltas,
                   staleAtStart, call, sent, warnings, second, reading, responseBody, buffer>>

\* Variant: the retry is made whether or not continuation is still enabled.
StatelessRetryDueWhenDisabled(cfg, status, lowerErrorText) ==
    /\ cfg.apiMode = "responses"
    /\ status = 400
    /\ Includes(lowerErrorText, "unsupported parameter")
    /\ Includes(lowerErrorText, "previous_response_id")

\* Variant: a body that also asks for the fallback is left to the fallback.
StatelessRetryDueAfterFallback(cfg, status, lowerErrorText) ==
    /\ cfg.apiMode = "responses"
    /\ cfg.supportsStatefulResponses
    /\ status = 400
    /\ Includes(lowerErrorText, "unsupported parameter")
    /\ Includes(lowerErrorText, "previous_response_id")
    /\ ~Includes(lowerErrorText, "not supported")

\* if (modelConfigInfo.apiMode === "responses" && (supportsStatefulResponses ?? true)
\*     && status === 400 && ... "unsupported parameter" ... "previous_response_id")
StatelessRetryDue(cfg, status, lowerErrorText) ==
    /\ cfg.apiMode = "responses"
    /\ cfg.supportsStatefulResponses
    /\ status = 400
    /\ Includes(lowerErrorText, "unsupported parameter")
    /\ Includes(lowerErrorText, "previous_response_id")

\* Variant: the fallback is taken whether or not the model enables it.
FallbackDueUnconfigured(cfg, a, status, errorText) ==
    /\ cfg.apiMode = "responses"
    /\ isUnsupportedError(a, status, errorText)

\* if (modelConfigInfo.apiMode === "responses" && fallbackToChatCompletions
\*     && adapter.isUnsupportedError(status, errorText))
FallbackDue(cfg, a, status, errorText) ==
    /\ cfg.apiMode = "responses"
    /\ cfg.fallbackToChatCompletions
    /\ isUnsupportedError(a, status, errorText)

\* The first response is not ok: the stateless retry, the fallback retry, or
\* the turn throws.
ResponseRejected(status, errorText) ==
    /\ phase = "requesting"
    /\ response' = FailedResponse(status, errorText)
    /\ IF StatelessRetryDue(modelConfigInfo, status, toLowerCase(errorText))
       THEN /\ modelConfigInfo' = [modelConfigInfo EXCEPT !.supportsStatefulResponses = FALSE]
            /\ modelConfig' = IF configInTable
                              THEN [modelConfig EXCEPT ![modelId].supportsStatefulResponses = FALSE]
                              ELSE modelConfig
            /\ adapter' = createAdapter(modelConfigInfo.apiMode)
            /\ sent' = Append(sent, buildRequest(
                                  createAdapter(modelConfigInfo.apiMode), call.messages,
                                  [modelConfigInfo EXCEPT !.supportsStatefulResponses = FALSE],
                                  modelId))
            /\ phase' = "retrying"
            /\ requests' = requests + 1
            /\ UNCHANGED <<outcome, warnings>>
       ELSE IF FallbackDue(modelConfigInfo, adapter, status, errorText)
       THEN /\ warnings' = [turn |-> warnings.turn + 1, session |-> warnings.session + 1]
            /\ adapter' = createAdapter("chat_completions")
            /\ sent' = Append(sent, buildRequest(
                                  createAdapter("chat_completions"), call.messages,
                                  [modelConfigInfo EXCEPT !.apiMode = "chat_completions"],
                                  modelId))
            /\ phase' = "retrying"
            /\ requests' = requests + 1
            /\ UNCHANGED <<modelConfigInfo, modelConfig, outcome>>
       ELSE /\ phase' = "idle"
            /\ outcome' = "failed"
            /\ UNCHANGED <<modelConfigInfo, modelConfig, adapter, requests, sent, warnings>>
    /\ configInTable' = FALSE
    /\ UNCHANGED <<providerVars, modelId, cancelRequested, lines, linesLeft,
                   thinkingSupported, progress, turns, lastEvent, textDeltas, staleAtStart,
                   call, second, reading, responseBody, buffer>>

\* The retry's response is ok and has a body: processStreamingResponse starts.
RetryOk ==
    /\ phase = "retrying"
    /\ phase' = "streaming"
    /\ UNCHANGED <<providerVars, configVars, modelId, adapter, cancelRequested, requests,
                   lines, linesLeft, thinkingSupported, progress, outcome, turns, lastEvent, textDeltas,
                   staleAtStart, call, sent, warnings, second, response, reading, responseBody, buffer>>

\* The retry's response is not ok, or has no body: the turn throws.
RetryRejected ==
    /\ phase = "retrying"
    /\ phase' = "idle"
    /\ outcome' = "failed"
    /\ UNCHANGED <<providerVars, configVars, modelId, adapter, cancelRequested, requests,
                   lines, linesLeft, thinkingSupported, progress, turns, lastEvent, textDeltas,
                   staleAtStart, call, sent, warnings, second, response, reading, responseBody, buffer>>

\* The host cancels the turn's token.
RequestCancel ==
    /\ phase \in {"requesting", "retrying", "streaming"}
    /\ ~cancelRequested
    /\ cancelRequested' = TRUE
    /\ UNCHANGED <<providerVars, configVars, modelId, adapter, phase, requests, lines,
                   linesLeft, thinkingSupported, progress, outcome, turns, lastEvent, textDeltas,
                   staleAtStart, call, sent, warnings, second, response, reading, responseBody, buffer>>

\* The while loop finds the token not cancelled and calls reader.read().
BeginRead ==
    /\ phase = "streaming"
    /\ linesLeft = 0
    /\ ~reading
    /\ ~cancelRequested
    /\ reading' = TRUE
    /\ UNCHANGED <<providerVars, configVars, modelId, adapter, cancelRequested, phase,
                   requests, lines, linesLeft, thinkingSupported, progress, outcome, turns,
                   lastEvent, textDeltas, staleAtStart, call, sent, warnings, second,
                   response, responseBody, buffer>>

\* reader.read() delivers a chunk that completes k lines; the token is not
\* looked at before the lines are handled.
ReadChunk ==
    /\ phase = "streaming"
    /\ reading
    /\ reading' = FALSE
    /\ \E k \in 1..MaxChunkLines :
          /\ lines + k <= MaxLines
          /\ linesLeft' = k
    /\ UNCHANGED <<providerVars, configVars, modelId, adapter, cancelRequested, phase,
                   requests, lines, thinkingSupported, progress, outcome, turns, lastEvent,
                   textDeltas, staleAtStart, call, sent, warnings, second, response, responseBody, buffer>>

\* The for loop's iteration after the event is routed: an Error thrown leaves
\* through the finally block and fails the turn.
LineHandled(t) ==
    IF t.thrown # ""
    THEN /\ Commit(streamFinally(t))
         /\ phase' = "idle"
         /\ outcome' = "failed"
         /\ linesLeft' = 0
    ELSE /\ Commit(t)
         /\ linesLeft' = linesLeft - 1
         /\ UNCHANGED <<phase, outcome>>

\* parsed is what adapter.parseStreamEvent(line) returned and left.
LineParsed(parsed) ==
    /\ adapter' = parsed.adapter
    /\ lastEvent' = parsed.event
    /\ textDeltas' = IF parsed.event.type = "text"
                     THEN Append(textDeltas, parsed.event.content) ELSE textDeltas
    /\ LineHandled(routeEvent(This, parsed.event, modelId, thinkingSupported))

\* One iteration of the for loop: the line is parsed and its event routed.
ProcessLine(line) ==
    /\ phase = "streaming"
    /\ linesLeft > 0
    /\ lines' = lines + 1
    /\ LineParsed(parseStreamEvent(adapter, line))
    /\ UNCHANGED <<configVars, modelId, cancelRequested, requests, thinkingSupported,
                   turns, staleAtStart, call, sent, warnings, second, response, reading, responseBody, buffer>>

\* reader.read() reports the end of the stream: break, then finally.
EndStream ==
    /\ phase = "streaming"
    /\ reading
    /\ responseBody.read = Len(responseBody.bytes)
    /\ reading' = FALSE
    /\ Commit(streamFinally(This))
    /\ phase' = "idle"
    /\ outcome' = "completed"
    /\ UNCHANGED <<configVars, modelId, adapter, cancelRequested, requests, lines,
                   linesLeft, thinkingSupported, turns, lastEvent, textDeltas, staleAtStart,
                   call, sent, warnings, second, response, responseBody, buffer>>

\* The while loop finds the token cancelled: it exits, then finally.
ExitOnCancel ==
    /\ phase = "streaming"
    /\ linesLeft = 0
    /\ ~reading
    /\ cancelRequested
    /\ Commit(streamFinally(This))
    /\ phase' = "idle"
    /\ outcome' = "cancelled"
    /\ UNCHANGED <<configVars, modelId, adapter, cancelRequested, requests, lines,
                   linesLeft, thinkingSupported, turns, lastEvent, textDeltas, staleAtStart,
                   call, sent, warnings, second, response, reading, responseBody, buffer>>

(***************************************************************************)
(* A second call on the same provider.  The extension registers one        *)
(* provider, and the host may call provideLanguageModelChatResponse again  *)
(* before the first call has returned; the calls interleave where the      *)
(* first awaits reader.read().  The second call has its own progress sink, *)
(* token and adapter (for the chat protocol, an adapter without state) and *)
(* the provider's fields in common with the first.                         *)
(***************************************************************************)
\* The provider's fields after the second call's step; the first call's
\* progress sink is not the second's.
CommitFields(t) ==
    /\ toolCallBuffers' = t.toolCallBuffers
    /\ completedToolCallIndices' = t.completedToolCallIndices
    /\ hasEmittedAssistantText' = t.hasEmittedAssistantText
    /\ emittedBeginToolCallsHint' = t.emittedBeginToolCallsHint
    /\ textToolParserBuffer' = t.textToolParserBuffer
    /\ textToolActive' = t.textToolActive
    /\ emittedTextToolCallKeys' = t.emittedTextToolCallKeys
    /\ emittedTextToolCallIds' = t.emittedTextToolCallIds

\* What a step of the second call leaves alone.
SecondFrame ==
    UNCHANGED <<configVars, modelId, adapter, cancelRequested, phase, requests, lines,
                linesLeft, thinkingSupported, progress, outcome, turns, lastEvent,
                textDeltas, staleAtStart, call, sent, warnings, response, reading, responseBody, buffer>>

\* The second call up to its stream: the reset that opens
\* provideLanguageModelChatResponse, then the request and its response.
SecondStart ==
    /\ phase = "streaming"
    /\ reading
    /\ second.phase = "idle"
    /\ CommitFields(resetTurnState(This))
    /\ second' = [phase |-> "streaming", progress |-> <<>>, lines |-> 0]
    /\ SecondFrame

\* The second call's for loop after the event is routed.
SecondHandled(t) ==
    IF t.thrown # ""
    THEN /\ CommitFields(streamFinally(t))
         /\ second' = [phase |-> "done", progress |-> t.progress, lines |-> second.lines + 1]
    ELSE /\ CommitFields(t)
         /\ second' = [second EXCEPT !.progress = t.progress, !.lines = @ + 1]

\* One line of the second call's stream, parsed and routed.
SecondLine(line) ==
    /\ second.phase = "streaming"
    /\ phase = "streaming" => reading
    /\ second.lines < MaxSecondLines
    /\ SecondHandled(routeEvent([This EXCEPT !.progress = second.progress],
                                parseStreamEvent(createAdapter("chat_completions"), line).event,
                                modelId, thinkingSupported))
    /\ SecondFrame

\* The second call's stream ends: its finally block.
SecondEnd ==
    /\ second.phase = "streaming"
    /\ phase = "streaming" => reading
    /\ CommitFields(streamFinally(This))
    /\ second' = [second EXCEPT !.phase = "done"]
    /\ SecondFrame

(***************************************************************************)
(* Inputs.  The lines a stream may deliver are drawn from small sets.      *)
(***************************************************************************)
\* Stream indices of structured tool calls.
ToolIndices == {0, 1}

\* {"a":1} split across three fragments.
Frag1 == "{\"a"
Frag2 == "\":1"
Frag3 == "}"

\* data: {"choices":[{"delta":{"tool_calls":[{index, id, function:{name, arguments}}]}}]}
ToolDelta(index, id, name, args) ==
    ChatChunk("", <<ChatToolCall(index, id, name, args)>>, "")

TextDelta(content) == ChatChunk(content, <<>>, "")

FinishLine(reason) == ChatChunk("", <<>>, reason)

\* Structured channel: per index the opening delta (id, name, first
\* fragment), the two later fragments, a complete argument object without a
\* name, a name without arguments; the finish reasons; [DONE]; a text.
StructLines ==
    {ToolDelta(i, "call_" \o ToString(i), "f", Frag1) : i \in ToolIndices}
    \cup {ToolDelta(i, "", "", a) : i \in ToolIndices, a \in {Frag2, Frag3, "{}"}}
    \cup {ToolDelta(i, "", "f", "") : i \in ToolIndices}
    \cup {FinishLine(r) : r \in {"stop", "tool_calls", "length"}}
    \cup {DoneLine, TextDelta("hi")}

\* An inline tool call as one text: BEGIN header ARG_BEGIN json END.
InlineCall(header, json) == BEGIN \o header \o ARG_BEGIN \o json \o END

CallJson == "{\"x\":1}"

\* prefix BEGIN foo ARG_BEGIN {"x":1} END suffix, in one delta.
RoundTripPrefixes == {"", "before "}
RoundTripSuffixes == {" after", " a<"}

RoundTripText(prefix, suffix) == prefix \o InlineCall("foo", CallJson) \o suffix

\* Two deltas that split the BEGIN token, and two that split the header.
SplitBegin == <<"a<|tool_", "call_begin|>foo" \o ARG_BEGIN \o CallJson \o END>>
SplitHeader == <<BEGIN \o "fo", "o" \o ARG_BEGIN \o CallJson \o END>>
SplitPairs == {SplitBegin, SplitHeader}

\* A call with an index whose arguments arrive while it is open.
OpenCall == BEGIN \o "foo:0" \o ARG_BEGIN \o "{\"x\":"
CloseArgs == "1}"

\* Inline channel, texts and tokens: the texts above, two plain texts, the
\* first ending with the first character of BEGIN, and [DONE].
InlineTexts ==
    {RoundTripText(p, x) : p \in RoundTripPrefixes, x \in RoundTripSuffixes}
    \cup {SplitBegin[1], SplitBegin[2], SplitHeader[1], SplitHeader[2]}
    \cup {"a<", "b"}

InlineLines == {TextDelta(c) : c \in InlineTexts} \cup {DoneLine}

\* Inline channel, repeated calls: a call whose arguments arrive while it is
\* open and its END, the same call with and without an index in one text,
\* the same arguments spelled with blanks, a plain text, and [DONE].
DedupTexts ==
    {OpenCall, CloseArgs, END, "b",
     InlineCall("foo:0", CallJson), InlineCall("foo", CallJson),
     InlineCall("foo", "{ \"x\" : 1 }")}

DedupLines == {TextDelta(c) : c \in DedupTexts} \cup {DoneLine}

\* Both channels: fragments of a named call, a complete object without a
\* name, an array (never an object), the forced flush, [DONE], inline calls
\* with and without arguments, with blanks in the arguments, and one whose
\* arguments arrive while it is open.
MixedLines ==
    {ToolDelta(0, "call_0", "f", Frag1), ToolDelta(0, "", "", Frag2),
     ToolDelta(0, "", "", Frag3), ToolDelta(1, "", "", "{}"),
     ToolDelta(1, "", "f", "[1]"), FinishLine("stop"), DoneLine,
     TextDelta(InlineCall("foo", CallJson)),
     TextDelta(InlineCall("foo", "{ \"x\" : 1 }")),
     TextDelta(BEGIN \o "bar" \o END),
     TextDelta(OpenCall), TextDelta(CloseArgs)}

\* data: {"type": ..., ...} of the items protocol.
ResponsesLine(type) == JsonLine([NoPayload EXCEPT !.type = type])

\* Items protocol: a text delta that holds an inline call with an index, a
\* function call with a call id, the completion with and without a turn id,
\* an `event:` line, and [DONE].
TurnLines ==
    {[ResponsesLine("response.output_text.delta") EXCEPT
          !.json.deltaText = InlineCall("foo:0", CallJson)],
     [ResponsesLine("response.function_call_arguments.delta") EXCEPT
          !.json.callId = "c1", !.json.name = "f", !.json.args = "{}"],
     [ResponsesLine("response.completed") EXCEPT !.json.responseId = "r1"],
     ResponsesLine("response.completed"),
     EventLine("response.done"),
     DoneLine}

\* Two calls at once: the first call's stream delivers f {"a":1} in two
\* fragments, the second's g {"b":2} in two fragments.
FirstCallLines ==
    {ToolDelta(0, "call_0", "f", "{\"a\":"), ToolDelta(0, "", "", "1}")}

SecondCallLines ==
    {ToolDelta(0, "call_9", "g", "{\"b\":"), ToolDelta(0, "", "", "2}")}

\* Conversations: a message of the user, and a message of the assistant that
\* carries the marker of an earlier turn.
UserMessage(text) == <<TextMessagePart(text)>>

MarkerMessage(payload) ==
    <<TextMessagePart("ok"), DataMessagePart(payload, "stateful_marker")>>

\* One message; three messages, the second with a marker of m2; the same
\* with a marker of m1; markers of m2, of m1 and of m2 again and a message.
Conversations ==
    {<<UserMessage("q1")>>,
     <<UserMessage("q1"), MarkerMessage("m2\\r1"), UserMessage("q2")>>,
     <<UserMessage("q1"), MarkerMessage("m1\\r9"), UserMessage("q2")>>,
     <<MarkerMessage("m2\\r1"), MarkerMessage("m1\\r9"), MarkerMessage("m2\\r2"),
       UserMessage("q3")>>}

\* The data parts a turn reported, as the parts of a message.
RECURSIVE DataPartsOf(_)
DataPartsOf(parts) ==
    IF parts = <<>> THEN <<>>
    ELSE IF Head(parts).kind = "data"
    THEN <<DataMessagePart(Head(parts).value, Head(parts).name)>> \o DataPartsOf(Tail(parts))
    ELSE DataPartsOf(Tail(parts))

\* The conversation the host sends after a turn that reported parts: the
\* question, the assistant's message with the data parts, a new question.
Resent(parts) ==
    <<UserMessage("q1"), <<TextMessagePart("ok")>> \o DataPartsOf(parts), UserMessage("q2")>>

\* A call with these messages, no tool, and room for them.
CallWith(messages) ==
    [messages |-> messages, tools |-> 0, toolTokens |-> 0, maxInputTokens |-> 100]

\* Items protocol: the completion with a turn id, and [DONE].
RequestLines ==
    {[ResponsesLine("response.completed") EXCEPT !.json.responseId = "r7"], DoneLine}

\* The text "hi" as the chat protocol delivers it, the text "ho" as the
\* items protocol delivers it, and [DONE].
FallbackLines ==
    {TextDelta("hi"),
     [ResponsesLine("response.output_text.delta") EXCEPT !.json.deltaText = "ho"],
     DoneLine}

\* Statuses and bodies of rejected responses: the three statuses that name
\* a missing endpoint and three that do not; bodies with one of the four
\* phrases in another case, and bodies without any.
ClassifiedStatuses == {400, 403, 404, 405, 500, 501}

ClassifiedTexts ==
    {"Resource NOT FOUND", "Not Supported", "not implemented yet", "Unknown Endpoint /v1",
     "", "boom", "notfound"}

\* Calls at the limits: a message of two tokens or of three, 128 tools or
\* 129, tools of no token or of two, an input limit of 0 (read as 1) or 4.
LimitCalls ==
    {[messages |-> <<UserMessage(text)>>, tools |-> tools, toolTokens |-> toolTokens,
      maxInputTokens |-> limit] :
        text \in {"12345", "123456789"}, tools \in {128, 129}, toolTokens \in {0, 2},
        limit \in {0, 4}}

\* Lines of either protocol, well formed and not: the `event:` line that
\* names response.done, the objects {} and {"type":"unknown.type"}, a data
\* line that is no JSON, a line that is neither `event:` nor `data:`, the text
\* "hi" of the chat protocol and "ho" of the items protocol, and [DONE].
MalformedAndOtherLines ==
    {EventLine("response.done"),
     JsonLine(NoPayload),
     ResponsesLine("unknown.type"),
     GarbageLine,
     OtherLine,
     TextDelta("hi"),
     [ResponsesLine("response.output_text.delta") EXCEPT !.json.deltaText = "ho"],
     DoneLine}

\* Base URLs: with the versioned prefix, with the resource path of either
\* protocol, with neither, each with and without a trailing slash where that
\* makes a difference, and one with the prefix in its middle.
BaseUrls ==
    {"h/v1", "h/v1/", "h", "h/", "h/v1/chat/completions", "h/v1/responses", "h/v1/x"}

\* What a rejected response may carry.
ErrorStatuses == {400, 404, 500}
ErrorTexts ==
    {"Unsupported parameter: previous_response_id",
     "Unsupported parameter: previous_response_id is not supported",
     "Not Found", "boom"}

(***************************************************************************)
(* Specifications.                                                         *)
(***************************************************************************)
\* The steps of a turn that do not depend on the protocol or on the lines.
TurnStep ==
    \/ PrepareInformation
    \/ \E hasBody \in BOOLEAN : ResponseOk(hasBody)
    \/ \E status \in ErrorStatuses, errorText \in ErrorTexts :
          ResponseRejected(status, errorText)
    \/ RequestCancel
    \/ BeginRead
    \/ ReadChunk
    \/ EndStream
    \/ ExitOnCancel

\* A chat-protocol stream that uses the structured tool-call channel.
Next ==
    \/ \E valid \in BOOLEAN : StartTurn("m1", valid)
    \/ TurnStep
    \/ \E line \in StructLines : ProcessLine(line)

Spec == Init /\ [][Next]_vars

\* A chat-protocol stream that carries tool calls inline, in its text.
NextInline ==
    \/ \E valid \in BOOLEAN : StartTurn("m1", valid)
    \/ TurnStep
    \/ \E line \in InlineLines : ProcessLine(line)

SpecInline == Init /\ [][NextInline]_vars

\* A chat-protocol stream that repeats inline tool calls.
NextDedup ==
    \/ \E valid \in BOOLEAN : StartTurn("m1", valid)
    \/ TurnStep
    \/ \E line \in DedupLines : ProcessLine(line)

SpecDedup == Init /\ [][NextDedup]_vars

\* A chat-protocol stream that uses both channels.
NextMixed ==
    \/ \E valid \in BOOLEAN : StartTurn("m1", valid)
    \/ TurnStep
    \/ \E line \in MixedLines : ProcessLine(line)

SpecMixed == Init /\ [][NextMixed]_vars

\* Two calls on one provider, the second while the first is in its stream.
NextOverlap ==
    \/ \E valid \in BOOLEAN : StartTurn("m1", valid)
    \/ TurnStep
    \/ \E line \in FirstCallLines : ProcessLine(line)
    \/ SecondStart
    \/ \E line \in SecondCallLines : SecondLine(line)
    \/ SecondEnd

SpecOverlap == Init /\ [][NextOverlap]_vars

\* Turns on the items protocol, with the two retries.
NextTurns ==
    \/ \E valid \in BOOLEAN : StartTurn("m2", valid)
    \/ TurnStep
    \/ RetryOk
    \/ RetryRejected
    \/ \E line \in TurnLines : ProcessLine(line)

SpecTurns == Init /\ [][NextTurns]_vars

\* Turns on the items protocol whose conversations carry markers.
NextRequests ==
    \/ \E valid \in BOOLEAN, messages \in Conversations \cup {Resent(progress)} :
          StartTurnWith("m2", valid, CallWith(messages))
    \/ TurnStep
    \/ RetryOk
    \/ RetryRejected
    \/ \E line \in RequestLines : ProcessLine(line)

SpecRequests == Init /\ [][NextRequests]_vars

\* Turns on the items protocol for three models; the host sends back what
\* the turn before reported.
NextMarkers ==
    \/ \E model \in {"m2", "m3", "m3\\x"} :
          StartTurnWith(model, TRUE, CallWith(Resent(progress)))
    \/ TurnStep
    \/ RetryOk
    \/ RetryRejected
    \/ \E line \in RequestLines : ProcessLine(line)

SpecMarkers == Init /\ [][NextMarkers]_vars

\* Turns on the items protocol for a model with the fallback enabled and
\* for one without it.
NextFallback ==
    \/ \E model \in {"m2", "m3"}, messages \in Conversations :
          StartTurnWith(model, TRUE, CallWith(messages))
    \/ TurnStep
    \/ RetryOk
    \/ RetryRejected
    \/ \E line \in FallbackLines : ProcessLine(line)

SpecFallback == Init /\ [][NextFallback]_vars

\* Turns on either protocol whose first response is rejected with one of
\* the classified statuses and bodies.
NextErrors ==
    \/ \E model \in {"m1", "m2"} : StartTurn(model, TRUE)
    \/ PrepareInformation
    \/ ResponseOk(TRUE)
    \/ \E status \in ClassifiedStatuses, errorText \in ClassifiedTexts :
          ResponseRejected(status, errorText)
    \/ RetryOk
    \/ RetryRejected
    \/ BeginRead
    \/ ReadChunk
    \/ \E line \in {TextDelta("hi"), DoneLine} : ProcessLine(line)
    \/ EndStream

SpecErrors == Init /\ [][NextErrors]_vars

\* Turns on the chat protocol whose calls are at the limits.
NextLimits ==
    \/ \E c \in LimitCalls : StartTurnWith("m1", TRUE, c)
    \/ PrepareInformation
    \/ ResponseOk(TRUE)
    \/ ResponseRejected(500, "boom")
    \/ BeginRead
    \/ ReadChunk
    \/ \E line \in {TextDelta("hi"), DoneLine} : ProcessLine(line)
    \/ EndStream

SpecLimits == Init /\ [][NextLimits]_vars

\* Turns on either protocol whose streams hold malformed lines.
NextMalformed ==
    \/ \E model \in {"m1", "m3"} : StartTurn(model, TRUE)
    \/ PrepareInformation
    \/ ResponseOk(TRUE)
    \/ ResponseRejected(500, "boom")
    \/ BeginRead
    \/ ReadChunk
    \/ \E line \in MalformedAndOtherLines : ProcessLine(line)
    \/ EndStream

SpecMalformed == Init /\ [][NextMalformed]_vars

\* Turns on either protocol for every base URL of the configuration file.
NextEndpoints ==
    \/ \E model \in {"m1", "m2"} : StartTurn(model, TRUE)
    \/ \E baseUrl \in BaseUrls : PrepareInformationFrom(ConfigFileAt(baseUrl))
    \/ ResponseOk(TRUE)
    \/ \E errorText \in ErrorTexts : ResponseRejected(400, errorText)
    \/ RetryOk
    \/ RetryRejected
    \/ BeginRead
    \/ ReadChunk
    \/ ProcessLine(DoneLine)
    \/ EndStream

SpecEndpoints == Init /\ [][NextEndpoints]_vars

\* Turns on the chat protocol that the host may cancel.  The steps of the
\* stream loop itself are taken when they can be (the loop's code runs);
\* nothing obliges the upstream to deliver a chunk or to end the stream, nor
\* the host to call or to cancel.
NextCancel ==
    \/ StartTurn("m1", TRUE)
    \/ PrepareInformation
    \/ ResponseOk(TRUE)
    \/ RequestCancel
    \/ BeginRead
    \/ ReadChunk
    \/ \E line \in {TextDelta("hi"), DoneLine} : ProcessLine(line)
    \/ EndStream
    \/ ExitOnCancel

SpecCancel ==
    /\ Init
    /\ [][NextCancel]_vars
    /\ WF_vars(BeginRead)
    /\ WF_vars(\E line \in {TextDelta("hi"), DoneLine} : ProcessLine(line))
    /\ WF_vars(ExitOnCancel)

(***************************************************************************)
(* What the progress sink received, as the properties below read it.       *)
(***************************************************************************)
\* The places of the tool-call parts of the structured channel for index i.
StructuredCalls(parts, i) ==
    {k \in 1..Len(parts) : /\ parts[k].kind = "toolcall"
                           /\ parts[k].channel = "structured"
                           /\ parts[k].index = i}

\* The places of the tool-call parts of the inline channel.
InlineCalls(parts) ==
    {k \in 1..Len(parts) : parts[k].kind = "toolcall" /\ parts[k].channel = "inline"}

\* The tool calls in order, as the host sees them: name and arguments.
IsToolCall(part) == part.kind = "toolcall"

RECURSIVE CallsOf(_)
CallsOf(parts) ==
    IF parts = <<>> THEN <<>>
    ELSE IF IsToolCall(Head(parts))
    THEN <<[name |-> Head(parts).name, input |-> Head(parts).input]>> \o CallsOf(Tail(parts))
    ELSE CallsOf(Tail(parts))

\* The visible text: the values of the text parts, in order.
RECURSIVE VisibleText(_)
VisibleText(parts) ==
    IF parts = <<>> THEN ""
    ELSE IF Head(parts).kind = "text" THEN Head(parts).value \o VisibleText(Tail(parts))
    ELSE VisibleText(Tail(parts))

\* The strings of a sequence, concatenated.
RECURSIVE Concat(_)
Concat(strs) == IF strs = <<>> THEN "" ELSE Head(strs) \o Concat(Tail(strs))

\* The indices whose buffer holds arguments that do not parse as a JSON object.
UnparseableIndices(bufs) ==
    {bufs[k].index : k \in {j \in 1..Len(bufs) : ~tryParseJSONObject(bufs[j].args).ok}}

\* The eight per-turn fields are as the constructor leaves them.
PerTurnStateInitial ==
    /\ toolCallBuffers = <<>>
    /\ completedToolCallIndices = {}
    /\ hasEmittedAssistantText = FALSE
    /\ emittedBeginToolCallsHint = FALSE
    /\ textToolParserBuffer = ""
    /\ textToolActive = NoTextTool
    /\ emittedTextToolCallKeys = {}
    /\ emittedTextToolCallIds = {}

\* A step that handles one line, which the parser turned into a tool_call event.
ToolCallStep == lines' = lines + 1 /\ lastEvent'.type = "tool_call"

(***************************************************************************)
(* C1.  Structured channel, at most one call per index.                    *)
(***************************************************************************)
\* In a turn no stream index has two tool-call parts.
C1OnePerIndex ==
    \A i \in ToolIndices : Cardinality(StructuredCalls(progress, i)) <= 1

\* A delta for a completed index re-creates no buffer and completes nothing.
C1LateDeltaBuffers ==
    (ToolCallStep /\ lastEvent'.index \in completedToolCallIndices)
        => /\ toolCallBuffers' = toolCallBuffers
           /\ completedToolCallIndices' = completedToolCallIndices

\* C1, as the code has it: in a turn at most one tool-call part is reported
\* per stream index, a completed index has no buffer, and a later delta for a
\* completed index re-creates no buffer and reports no tool call; the one
\* part it may report is the single-space hint, when it is the first
\* tool-call delta after visible text.
C1FlushedIndexIgnored ==
    /\ [](C1OnePerIndex
          /\ \A i \in completedToolCallIndices : BufferPos(toolCallBuffers, i) = 0)
    /\ [][C1LateDeltaBuffers]_vars
    /\ [][(ToolCallStep /\ lastEvent'.index \in completedToolCallIndices)
             => progress' \in {progress, Append(progress, TextPart(" "))}]_vars

\* C1, as stated: in a turn at most one tool-call part is reported per stream
\* index, and a later delta for a completed index re-creates no buffer and
\* reports nothing.
C1NothingEmitted ==
    /\ []C1OnePerIndex
    /\ [][C1LateDeltaBuffers]_vars
    /\ [][(ToolCallStep /\ lastEvent'.index \in completedToolCallIndices)
             => progress' = progress]_vars

\* The call of an index was reported, text followed, and a later delta for
\* the index reported the hint and nothing else.
C1LateDeltaSeen ==
    /\ phase = "streaming"
    /\ lastEvent.type = "tool_call"
    /\ lastEvent.index \in completedToolCallIndices
    /\ Len(progress) >= 3
    /\ progress[Len(progress)] = TextPart(" ")
    /\ \E k \in StructuredCalls(progress, lastEvent.index) : k < Len(progress) - 1

(***************************************************************************)
(* C2.  Eager emission.                                                    *)
(***************************************************************************)
\* event is a delta for index i, which is not completed; name and args are
\* what the buffer holds once the delta is merged.
C2Delta(i, name, args) ==
    IF name # "" /\ IsJSONObjectText(args)
    THEN /\ StructuredCalls(progress, i) = {}
         /\ StructuredCalls(progress', i) = {Len(progress')}
         /\ progress'[Len(progress')].name = name
         /\ progress'[Len(progress')].input = JSONStringify(args)
         /\ i \in completedToolCallIndices'
    ELSE /\ StructuredCalls(progress', i) = {}
         /\ BufferGet(toolCallBuffers', i).args = args
         /\ i \notin completedToolCallIndices'

\* C2: a delta for an index that is not completed reports the index's call
\* at once, and as the index's only call, when the name is known and the
\* arguments received so far, concatenated, parse as a JSON object; otherwise
\* it reports no call for the index and the buffer holds the concatenation.
C2EagerEmission ==
    [][(ToolCallStep /\ lastEvent'.index \notin completedToolCallIndices)
          => C2Delta(lastEvent'.index,
                     IF lastEvent'.name # "" THEN lastEvent'.name
                     ELSE BufferGet(toolCallBuffers, lastEvent'.index).name,
                     BufferGet(toolCallBuffers, lastEvent'.index).args
                         \o lastEvent'.args)]_vars

\* {"a":1} arrived in three deltas and the third reported the call.
C2ThirdFragmentEmits ==
    /\ lines = 3
    /\ lastEvent.type = "tool_call"
    /\ lastEvent.args = Frag3
    /\ Len(progress) = 1
    /\ progress[1].kind = "toolcall"
    /\ progress[1].input = "{\"a\":1}"
    /\ progress[1].index = lastEvent.index

(***************************************************************************)
(* C3.  The finish boundary.                                               *)
(***************************************************************************)
\* C3: when a buffer holds arguments that do not parse, a finish event with
\* reason stop or tool_calls fails the turn, a done event fails nothing and
\* reports no call for that buffer, and a finish event with another reason
\* changes neither the parts reported nor the buffers.
C3FinishBoundary ==
    [][(lines' = lines + 1 /\ UnparseableIndices(toolCallBuffers) # {})
          => /\ (lastEvent'.type = "finish" /\ lastEvent'.reason \in {"stop", "tool_calls"})
                    => (phase' = "idle" /\ outcome' = "failed")
             /\ lastEvent'.type = "done"
                    => /\ phase' = phase
                       /\ outcome' = outcome
                       /\ \A i \in UnparseableIndices(toolCallBuffers) :
                             StructuredCalls(progress', i) = {}
             /\ (lastEvent'.type = "finish" /\ lastEvent'.reason \notin {"stop", "tool_calls"})
                    => /\ phase' = phase
                       /\ outcome' = outcome
                       /\ progress' = progress
                       /\ toolCallBuffers' = toolCallBuffers
                       /\ completedToolCallIndices' = completedToolCallIndices]_vars

\* A finish event failed the turn.
C3FinishFailed ==
    /\ outcome = "failed"
    /\ phase = "idle"
    /\ lastEvent.type = "finish"
    /\ lastEvent.reason \in {"stop", "tool_calls"}

(***************************************************************************)
(* C4.  Arguments are a JSON object.                                       *)
(***************************************************************************)
\* C4: the arguments of every tool-call part reported, on either channel,
\* are a JSON object, and an index whose buffer holds arguments that do not
\* parse has no part.
C4ArgumentsAreObjects ==
    /\ \A k \in 1..Len(progress) :
          progress[k].kind = "toolcall" => IsJSONObjectText(progress[k].input)
    /\ \A i \in UnparseableIndices(toolCallBuffers) : StructuredCalls(progress, i) = {}

\* A turn reported a call of the structured channel and a call of the inline
\* channel while a buffer holds arguments that do not parse.
C4BothChannelsEmitted ==
    /\ \E i \in ToolIndices : StructuredCalls(progress, i) # {}
    /\ InlineCalls(progress) # {}
    /\ UnparseableIndices(toolCallBuffers) # {}

(***************************************************************************)
(* C5, C6, C7.  The inline tokenizer and the text it lets through.         *)
(***************************************************************************)
\* The per-turn state as a turn finds it when its stream starts.
FreshTurn == [resetTurnState(This) EXCEPT !.progress = <<>>]

\* What the host sees of parts: the visible text and the calls in order.
Output(parts) == [text |-> VisibleText(parts), calls |-> CallsOf(parts)]

\* text has a control token that stripControlTokens removes.
HasControlToken(text) == stripControlTokens(text) # text

\* The turn is in its stream and the text deltas so far are exactly deltas.
Received(deltas) ==
    phase = "streaming" /\ lines = Len(deltas) /\ textDeltas = deltas

\* C5: a turn whose first delta is prefix BEGIN foo ARG_BEGIN {"x":1} END
\* suffix has reported, after that delta, the one call foo with {"x":1} and
\* visible text which, followed by what the tokenizer holds back, is prefix
\* followed by suffix.
C5RoundTrip ==
    \A p \in RoundTripPrefixes, x \in RoundTripSuffixes :
        Received(<<RoundTripText(p, x)>>)
            => /\ VisibleText(progress) \o textToolParserBuffer = p \o x
               /\ CallsOf(progress) = <<[name |-> "foo", input |-> CallJson]>>

\* C6: after a delta that ends with a strict prefix of BEGIN, or with BEGIN
\* and a part of the header, the tokenizer holds the fragment and has not
\* reported it; after the next delta the host has seen what it sees when the
\* two arrive as one delta.
C6SplitToken ==
    \A pair \in SplitPairs :
        /\ Received(<<pair[1]>>)
              => /\ textToolParserBuffer # ""
                 /\ VisibleText(progress) \o textToolParserBuffer = pair[1]
        /\ Received(pair)
              => Output(progress)
                    = Output(processTextContent(FreshTurn, pair[1] \o pair[2]).t.progress)

\* C7, for deltas without a control token: while the turn is in its stream
\* the visible text, followed by what the tokenizer holds back, is the
\* concatenation of the deltas, and when the stream has ended the visible
\* text is that concatenation.
C7TextNeverDropped ==
    (/\ lines = Len(textDeltas)
     /\ ~HasControlToken(Concat(textDeltas))
     /\ IndexOf(Concat(textDeltas), BEGIN) = -1)
        => /\ phase = "streaming"
                 => VisibleText(progress) \o textToolParserBuffer = Concat(textDeltas)
           /\ (phase = "idle" /\ outcome = "completed")
                 => VisibleText(progress) = Concat(textDeltas)

(***************************************************************************)
(* C8.  Inline calls are reported once.                                    *)
(***************************************************************************)
\* C8: among the inline tool-call parts of a turn no two whose header had an
\* index have the same name and index, and no two whose header had none have
\* the same name and arguments.
C8InlineDedup ==
    \A j, k \in InlineCalls(progress) :
        (j # k /\ progress[j].name = progress[k].name)
            => /\ (progress[j].hasIndex /\ progress[k].hasIndex)
                     => progress[j].index # progress[k].index
               /\ (~progress[j].hasIndex /\ ~progress[k].hasIndex)
                     => progress[j].input # progress[k].input

\* A call was reported while its arguments were open, its END followed and
\* [DONE] after it, and the turn has the one part.
C8EagerThenEnd ==
    /\ phase = "streaming"
    /\ textDeltas = <<OpenCall, CloseArgs, END>>
    /\ lastEvent.type = "done"
    /\ Cardinality(InlineCalls(progress)) = 1
    /\ emittedTextToolCallIds = {"foo:0"}

(***************************************************************************)
(* C9, C10.  The per-turn state at the end and at the start of a stream.   *)
(***************************************************************************)
\* C9: when the turn has ended, completed, failed or cancelled, the eight
\* per-turn fields are in their initial state.
C9CleanAtEnd ==
    (phase = "idle" /\ outcome \in {"completed", "failed", "cancelled"})
        => PerTurnStateInitial

\* C10: when a turn, one turn at a time, is about to read the first chunk
\* of its stream, the eight per-turn fields and the parser's fields are in
\* their initial state.
C10CleanAtStart ==
    (phase = "streaming" /\ lines = 0)
        => /\ PerTurnStateInitial
           /\ adapter = NewAdapter(adapter.kind)

\* A turn is about to read its stream after a turn that left an identity in
\* the identity set and a call id in its parser.
C10StaleStateBefore ==
    /\ phase = "streaming"
    /\ lines = 0
    /\ turns = 2
    /\ staleAtStart.ids # {}
    /\ staleAtStart.adapter.toolCallIndexById # {}

(***************************************************************************)
(* C11.  Two calls on one provider.                                        *)
(***************************************************************************)
\* The tool calls a sink received are all the call name with arguments input.
OnlyCall(parts, name, input) ==
    \A k \in 1..Len(parts) :
        parts[k].kind = "toolcall" => (parts[k].name = name /\ parts[k].input = input)

\* C11: while the first call is in its stream no step of a second call
\* changes the eight per-turn fields, and each call's sink receives only the
\* tool call its own stream delivered (f {"a":1} for the first, g {"b":2} for
\* the second).
C11TurnOwnsState ==
    /\ [][(phase = "streaming" /\ second' # second) => UNCHANGED providerVars]_vars
    /\ [](OnlyCall(progress, "f", "{\"a\":1}")
          /\ OnlyCall(second.progress, "g", "{\"b\":2}"))

(***************************************************************************)
(* C12: history truncation.                                                *)
(***************************************************************************)
\* The turn id a part carries for model, "" when it carries none.
TurnIdFor(part, model) ==
    IF /\ part.kind = "data"
       /\ part.mime = "stateful_marker"
       /\ StartsWith(part.value, model \o "\\")
    THEN Drop(part.value, Len(model) + 1)
    ELSE ""

\* The positions of the parts of a message that carry a turn id for model.
MarkedParts(message, model) ==
    {k \in 1..Len(message) : TurnIdFor(message[k], model) # ""}

\* The positions of the messages that carry a turn id for model.
MarkedMessages(messages, model) ==
    {i \in 1..Len(messages) : MarkedParts(messages[i], model) # {}}

\* The greatest element of a non-empty set of numbers.
Greatest(S) == CHOOSE n \in S : \A m \in S : m <= n

\* The request continues the most recent marker of model in messages.
ContinuesLastMarker(request, messages, model) ==
    LET i == Greatest(MarkedMessages(messages, model))
        k == Greatest(MarkedParts(messages[i], model))
    IN  /\ request.previous_response_id = TurnIdFor(messages[i][k], model)
        /\ request.messages = SubSeq(messages, i + 1, Len(messages))

\* The request carries the whole conversation and no continuation.
SendsWholeConversation(request, messages) ==
    /\ request.previous_response_id = ""
    /\ request.messages = messages

\* C12: the first request of a turn on the items protocol with continuation
\* enabled names the turn id of the most recent marker whose model id is the
\* turn's and carries only the messages strictly after it; markers of other
\* models are ignored, and with no matching marker (or continuation disabled)
\* the request carries the whole conversation and no continuation parameter.
C12HistoryTruncation ==
    [][(turns' = turns + 1 /\ sent' # <<>> /\ sent'[1].endpoint = "responses")
       => IF /\ modelConfig[modelId'].supportsStatefulResponses
             /\ MarkedMessages(call'.messages, modelId') # {}
          THEN ContinuesLastMarker(sent'[1], call'.messages, modelId')
          ELSE SendsWholeConversation(sent'[1], call'.messages)]_vars

\* A conversation whose marker of another model precedes the turn's own was
\* cut after the second marker of the turn's model.
C12CutAfterLastMarker ==
    /\ Len(call.messages) = 4
    /\ Len(sent) = 1
    /\ sent[1].endpoint = "responses"
    /\ sent[1].previous_response_id = "r2"
    /\ sent[1].messages = <<UserMessage("q3")>>

(***************************************************************************)
(* C13: the round trip of the continuation marker.                         *)
(***************************************************************************)
\* The continuation parameter the items-protocol builder of a turn for model
\* reads from a conversation whose assistant message holds part.
DecodedFor(part, model) ==
    buildRequest(createAdapter("responses"), Resent(<<part>>), ConfigFile[model],
                 model).previous_response_id

\* The positions of the continuation markers among the parts reported.
MarkerPositions(parts) ==
    {k \in 1..Len(parts) : parts[k].kind = "data" /\ parts[k].name = "stateful_marker"}

\* The last continuation marker reported.
LastMarker(parts) == parts[Greatest(MarkerPositions(parts))]

\* parts holds a continuation marker.
HasMarker(parts) == MarkerPositions(parts) # {}

\* C13: the payload the orchestrator reports for model id M and turn id R is
\* read by the items-protocol builder of a turn for M as continuation
\* parameter R and by a turn for any other model id as no continuation; a
\* later turn for M that gets the marker back continues, one for another
\* model sends no continuation parameter.
C13MarkerRoundTrip ==
    /\ [][(lastEvent'.type = "stateful_marker" /\ lines' = lines + 1)
          => \A model \in {"m2", "m3", "m3\\x"} :
                 DecodedFor(LastMarker(progress'), model)
                     = IF model = modelId THEN lastEvent'.marker ELSE ""]_vars
    /\ [][(/\ turns' = turns + 1
           /\ HasMarker(progress)
           /\ sent' # <<>>
           /\ modelConfig[modelId'].supportsStatefulResponses)
          => (sent'[1].previous_response_id # "" <=> modelId' = modelId)]_vars

(***************************************************************************)
(* C14: the fallback to the chat protocol.                                 *)
(***************************************************************************)
\* The step that handles the first response, which is not ok and has status.
RejectedWith(status) ==
    /\ phase = "requesting"
    /\ response' # response
    /\ ~response'.ok
    /\ response'.status = status

\* The step issues the turn's second request: to endpoint, with no
\* continuation parameter and with messages.
OneMoreRequest(endpoint, messages) ==
    /\ Len(sent) = 1
    /\ Len(sent') = 2
    /\ sent'[1] = sent[1]
    /\ sent'[2].endpoint = endpoint
    /\ sent'[2].previous_response_id = ""
    /\ sent'[2].messages = messages

\* The texts the sink received.
TextsOf(parts) == {parts[k].value : k \in {i \in 1..Len(parts) : parts[i].kind = "text"}}

\* C14: an items-protocol turn whose first response is a 404: with the
\* fallback enabled the turn issues one more request, to the chat endpoint
\* with the whole conversation of the call, shows one warning, reads the
\* retry's stream with the chat parser and issues no third request; with the
\* fallback disabled the turn fails with no retry and no warning.
C14FallbackScenario ==
    /\ [][(RejectedWith(404) /\ modelConfigInfo.apiMode = "responses")
          => IF modelConfigInfo.fallbackToChatCompletions
             THEN /\ phase' = "retrying"
                  /\ requests' = 2
                  /\ OneMoreRequest("chat_completions", call.messages)
                  /\ warnings'.turn = 1
                  /\ adapter'.kind = "chat"
             ELSE /\ phase' = "idle"
                  /\ outcome' = "failed"
                  /\ requests' = 1
                  /\ sent' = sent
                  /\ warnings'.turn = 0]_vars
    /\ []((~response.ok /\ response.status = 404 /\ requests = 2)
          => /\ Len(sent) = 2
             /\ warnings.turn = 1
             /\ adapter.kind = "chat"
             /\ TextsOf(progress) \subseteq {"hi"})

\* After a 404 the retry's stream delivered a text of the chat protocol.
C14RetryStreamed ==
    /\ response = FailedResponse(404, "boom")
    /\ Len(sent) = 2
    /\ sent[2].endpoint = "chat_completions"
    /\ Len(sent[2].messages) = 3
    /\ warnings.turn = 1
    /\ TextsOf(progress) = {"hi"}

(***************************************************************************)
(* C15: which failed responses mean that the protocol is not supported.    *)
(***************************************************************************)
\* The bodies among ClassifiedTexts that hold one of the four phrases in
\* some case.
TextsWithPhrase ==
    {"Resource NOT FOUND", "Not Supported", "not implemented yet", "Unknown Endpoint /v1"}

\* C15: the items-protocol adapter classifies the rejected response a turn
\* received as unsupported exactly when its status is 404, 405 or 501 or its
\* body holds one of the four phrases in some case, and with the fallback
\* enabled the turn retries exactly then; the chat-protocol adapter
\* classifies no response as unsupported, and a turn on the chat protocol
\* whose request failed fails without a retry.
C15UnsupportedClassification ==
    [][(phase = "requesting" /\ response' # response /\ ~response'.ok)
       => /\ isUnsupportedError(NewAdapter("responses"), response'.status, response'.errorText)
               <=> \/ response'.status \in {404, 405, 501}
                   \/ response'.errorText \in TextsWithPhrase
          /\ ~isUnsupportedError(NewAdapter("chat"), response'.status, response'.errorText)
          /\ IF adapter.kind = "chat"
             THEN phase' = "idle" /\ outcome' = "failed" /\ requests' = 1 /\ sent' = sent
             ELSE phase' = "retrying"
                      <=> \/ response'.status \in {404, 405, 501}
                          \/ response'.errorText \in TextsWithPhrase]_vars

\* A status that names no missing endpoint with a body that holds a phrase
\* in upper case: the items-protocol turn retries on the chat endpoint.
C15PhraseInUpperCase ==
    /\ response = FailedResponse(500, "Resource NOT FOUND")
    /\ phase = "retrying"
    /\ Len(sent) = 2
    /\ sent[2].endpoint = "chat_completions"

(***************************************************************************)
(* C16: the stateless retry.                                               *)
(***************************************************************************)
\* The bodies among ErrorTexts that name the continuation parameter as
\* unsupported; the second also holds a phrase that asks for the fallback.
ContinuationUnsupportedTexts ==
    {"Unsupported parameter: previous_response_id",
     "Unsupported parameter: previous_response_id is not supported"}

\* C16: an items-protocol turn with continuation enabled whose first
\* response is a 400 that names previous_response_id as an unsupported
\* parameter: the turn disables continuation in its model configuration (and
\* in the table that holds it), issues one more request to the items endpoint
\* with no previous_response_id and the whole conversation of the call, and
\* shows no fallback warning even when the body also asks for the fallback;
\* the turn issues no third request.
C16StatelessRetry ==
    /\ [][(/\ RejectedWith(400)
           /\ response'.errorText \in ContinuationUnsupportedTexts
           /\ modelConfigInfo.apiMode = "responses"
           /\ modelConfigInfo.supportsStatefulResponses)
          => /\ ~modelConfigInfo'.supportsStatefulResponses
             /\ configInTable => ~modelConfig'[modelId].supportsStatefulResponses
             /\ phase' = "retrying"
             /\ requests' = 2
             /\ OneMoreRequest("responses", call.messages)
             /\ adapter'.kind = "responses"
             /\ warnings' = warnings]_vars
    /\ [](requests <= 2 /\ Len(sent) = requests)

\* A request that continued turn r2 with one message was rejected with a
\* body that also asks for the fallback, and retried.
C16RetriedWithoutContinuation ==
    /\ response = FailedResponse(400, "Unsupported parameter: previous_response_id is not supported")
    /\ Len(sent) = 2
    /\ sent[1].previous_response_id = "r2"
    /\ Len(sent[1].messages) = 1
    /\ sent[2].previous_response_id = ""
    /\ Len(sent[2].messages) = 4
    /\ phase = "streaming"

(***************************************************************************)
(* C17: the continuation flag is disabled once and stays disabled.         *)
(***************************************************************************)
\* The turn that ends here made the stateless retry for its model.
MadeStatelessRetry ==
    /\ Len(sent) = 2
    /\ sent[2].endpoint = "responses"
    /\ ~modelConfigInfo.supportsStatefulResponses

\* C17: no step enables the continuation flag of a model whose flag is
\* disabled, and the first request of a turn that follows a turn which made
\* the stateless retry for the same model carries no continuation parameter.
C17FlagStaysDisabled ==
    /\ [][\A m \in DOMAIN modelConfig :
              ~modelConfig[m].supportsStatefulResponses
                  => ~modelConfig'[m].supportsStatefulResponses]_vars
    /\ [][(turns' = turns + 1 /\ MadeStatelessRetry /\ modelId' = modelId /\ sent' # <<>>)
          => sent'[1].previous_response_id = ""]_vars

(***************************************************************************)
(* C18: at most one retry.                                                 *)
(***************************************************************************)
\* The rejected response r asks cfg's turn for the stateless retry.
MatchesStatelessRetry(cfg, r) ==
    /\ cfg.apiMode = "responses"
    /\ cfg.supportsStatefulResponses
    /\ r.status = 400
    /\ r.errorText \in ContinuationUnsupportedTexts

\* The rejected response r (of ErrorStatuses and ErrorTexts) asks cfg's turn
\* for the fallback retry.
MatchesFallbackRetry(cfg, r) ==
    /\ cfg.apiMode = "responses"
    /\ cfg.fallbackToChatCompletions
    /\ \/ r.status = 404
       \/ r.errorText \in {"Not Found",
                           "Unsupported parameter: previous_response_id is not supported"}

\* C18: a turn issues at most two requests; its second request is either the
\* stateless retry (items endpoint, no warning) or the fallback retry (chat
\* endpoint, one warning); a rejected retry, and a rejected first response
\* that asks for neither retry, fail the turn with no further request; and
\* no request is issued after a turn has ended.
C18BoundedRetry ==
    /\ [](/\ requests <= 2
          /\ Len(sent) = requests
          /\ warnings.turn <= 1
          /\ Len(sent) = 2 => (sent[2].endpoint = "chat_completions" <=> warnings.turn = 1))
    /\ [][(phase = "retrying" /\ phase' = "idle")
          => outcome' = "failed" /\ sent' = sent /\ requests' = requests]_vars
    /\ [][(/\ phase = "requesting"
           /\ response' # response
           /\ ~response'.ok
           /\ ~MatchesStatelessRetry(modelConfigInfo, response')
           /\ ~MatchesFallbackRetry(modelConfigInfo, response'))
          => phase' = "idle" /\ outcome' = "failed" /\ sent' = sent /\ requests' = 1]_vars
    /\ [][(phase = "idle" /\ turns' = turns) => sent' = sent /\ requests' = requests]_vars

\* The retry of a turn was rejected: two requests, the turn failed.
C18RetryRejected ==
    /\ phase = "idle"
    /\ outcome = "failed"
    /\ requests = 2
    /\ Len(sent) = 2
    /\ ~response.ok
    /\ response.status = 400

(***************************************************************************)
(* C19: too many tools or too many tokens.                                 *)
(***************************************************************************)
\* The estimate for the one message of a call of LimitCalls: five characters
\* are two tokens, nine are three.
LimitCallTokens(c) == IF c.messages = <<UserMessage("12345")>> THEN 2 ELSE 3

\* The call declares more than 128 tools, or its messages and tools are
\* estimated above the input limit.
Oversubscribed(c) ==
    \/ c.tools > 128
    \/ LimitCallTokens(c) + c.toolTokens > (IF c.maxInputTokens >= 1 THEN c.maxInputTokens ELSE 1)

\* C19: a call with more than 128 tools, or with messages and tools estimated
\* above the model's input limit, fails its turn at once, and until the next
\* call no request is issued and no part reported.
C19FailsBeforeRequest ==
    /\ [][(turns' = turns + 1 /\ Oversubscribed(call'))
          => phase' = "idle" /\ outcome' = "failed"]_vars
    /\ []((turns > 0 /\ Oversubscribed(call))
          => /\ phase = "idle"
             /\ outcome = "failed"
             /\ requests = 0
             /\ sent = <<>>
             /\ progress = <<>>)

\* A call with 128 tools whose message of three tokens and tools of two
\* exceed the limit of four failed, after a turn that issued a request.
C19TokensOverLimit ==
    /\ turns = 2
    /\ call.tools = 128
    /\ LimitCallTokens(call) = 3
    /\ call.toolTokens = 2
    /\ call.maxInputTokens = 4
    /\ staleAtStart.adapter.kind = "chat"
    /\ outcome = "failed"
    /\ sent = <<>>

(***************************************************************************)
(* C20: malformed lines.                                                   *)
(***************************************************************************)
\* The types of the events a parser may return.
EventTypes ==
    {"skip", "done", "text", "thinking", "tool_call", "finish", "stateful_marker"}

\* JSON objects of a shape neither parser knows.
UnexpectedShapeLines == {JsonLine(NoPayload), ResponsesLine("unknown.type")}

\* The line the loop handled last was a data line: only a data line yields
\* an event other than skip, so an `event:` marker read before it has been
\* applied to it.
DataLineHandled == lastEvent.type \notin {"none", "skip"}

\* C20: each parser, in every state the turn's adapter reaches, returns one
\* event of the vocabulary for every line, and skip for a data line that is
\* no JSON; a JSON object of a shape the parser does not know yields skip (for
\* the items parser: once the data line that followed the last `event:`
\* marker has been handled); and a line that yields skip changes no field of
\* the provider, reports nothing and leaves the turn in its stream.
C20MalformedLinesSkipped ==
    /\ [](\A a \in {adapter, NewAdapter("chat"), NewAdapter("responses")} :
             /\ \A line \in MalformedAndOtherLines :
                    parseStreamEvent(a, line).event.type \in EventTypes
             /\ parseStreamEvent(a, GarbageLine).event = SkipEvent)
    /\ [](\A line \in UnexpectedShapeLines :
             /\ parseStreamEvent(NewAdapter("chat"), line).event = SkipEvent
             /\ parseStreamEvent(NewAdapter("responses"), line).event = SkipEvent
             /\ DataLineHandled => parseStreamEvent(adapter, line).event = SkipEvent)
    /\ [][(lines' = lines + 1 /\ lastEvent'.type = "skip")
          => UNCHANGED <<providerVars, progress, phase, outcome, textDeltas>>]_vars

(***************************************************************************)
(* C21: nothing is reported after the host has cancelled.                  *)
(***************************************************************************)
\* C21: once the token is cancelled, no step of the turn in its stream
\* reports a part, and none fails the turn on behalf of a buffered call.
C21CancellationSafety ==
    [][(cancelRequested /\ phase = "streaming" /\ turns' = turns)
       => progress' = progress /\ outcome' # "failed"]_vars

(***************************************************************************)
(* C22: a cancelled turn returns.                                          *)
(***************************************************************************)
\* C22: a turn in its stream whose token is cancelled eventually leaves the
\* stream loop and releases the reader, whether or not the upstream delivers
\* another chunk or ends the stream.
C22CancellationLiveness ==
    (cancelRequested /\ phase = "streaming") ~> (phase = "idle")

(***************************************************************************)
(* C23: the endpoint of a request.                                         *)
(***************************************************************************)
\* The resource path of a request's protocol.
ResourcePath(request) ==
    IF request.endpoint = "responses" THEN "/responses" ELSE "/chat/completions"

\* The base URLs that name the server or its versioned prefix, with or
\* without a trailing slash: their endpoint is the prefix and the path.
PlainBaseUrls == {"h/v1", "h/v1/", "h", "h/"}

\* C23: every request a turn issues, first or retry, for any base URL of the
\* configuration, has an endpoint that ends with the resource path of its
\* protocol and a body with stream true; for a base URL that is the server or
\* its versioned prefix the endpoint is the prefix followed by the path, and a
\* base URL that already ends with the path is the endpoint.
C23EndpointNormalised ==
    \A k \in 1..Len(sent) :
        /\ sent[k].stream
        /\ EndsWith(sent[k].url, ResourcePath(sent[k]))
        /\ modelConfigInfo.baseUrl \in PlainBaseUrls
               => sent[k].url = "h/v1" \o ResourcePath(sent[k])
        /\ EndsWith(modelConfigInfo.baseUrl, ResourcePath(sent[k]))
               => sent[k].url = modelConfigInfo.baseUrl

\* A base URL with a trailing slash and no versioned prefix: the first
\* request went to the items endpoint and the fallback retry to the chat
\* endpoint.
C23BothEndpointsBuilt ==
    /\ modelConfigInfo.baseUrl = "h/"
    /\ Len(sent) = 2
    /\ sent[1].url = "h/v1/responses"
    /\ sent[2].url = "h/v1/chat/completions"

(***************************************************************************)
(* C24: the index of a function call of the items protocol.                *)
(***************************************************************************)
CallIds == {"c1", "c2", "c3"}

\* A function call named by its call id, as each event type carries it: the
\* two delta events (call_id beside the delta), output_item.added and
\* output_item.done (the item), and the last entry of a trailing output array;
\* IndexingLines adds two `event:` markers.
FunctionCallDeltaLine(type, callId) ==
    [ResponsesLine(type) EXCEPT !.json.callId = callId, !.json.name = "f"]

OutputItemLine(type, callId) ==
    [ResponsesLine(type) EXCEPT
        !.json.item = [NoItem EXCEPT !.type = "function_call",
                                     !.callId = callId, !.name = "f"]]

OutputArrayLine(callId) ==
    [ResponsesLine("response.output") EXCEPT
        !.json.lastOutput = [NoItem EXCEPT !.type = "function_call",
                                           !.callId = callId, !.name = "f"]]

IndexingLines ==
    UNION {{FunctionCallDeltaLine("response.function_call.delta", c),
            FunctionCallDeltaLine("response.function_call_arguments.delta", c),
            OutputItemLine("response.output_item.added", c),
            OutputItemLine("response.output_item.done", c),
            OutputArrayLine(c)} : c \in CallIds}
    \cup {EventLine("response.output_item.added"), EventLine("message")}

NextIndexing ==
    \/ StartTurn("m3", TRUE)
    \/ PrepareInformation
    \/ ResponseOk(TRUE)
    \/ BeginRead
    \/ ReadChunk
    \/ \E line \in IndexingLines : ProcessLine(line)
    \/ EndStream

SpecIndexing == Init /\ [][NextIndexing]_vars

\* The call ids the connection has shown so far.
SeenCallIds == {e[1] : e \in adapter.toolCallIndexById}

\* C24: when a line of the items protocol yields a function-call event with a
\* call id, whatever the type of the event that carries it: a call id the
\* connection has not shown before gets the number of call ids shown before
\* (0, 1, 2, ...), a call id shown before gets the index it got then, and no
\* other call id of the connection has that index.
C24SequentialIndices ==
    [][(lines' = lines + 1 /\ lastEvent'.type = "tool_call" /\ lastEvent'.id # "")
          => /\ lastEvent'.id \notin SeenCallIds
                    => lastEvent'.index = Cardinality(SeenCallIds)
             /\ lastEvent'.id \in SeenCallIds
                    => <<lastEvent'.id, lastEvent'.index>> \in adapter.toolCallIndexById
             /\ \A e \in adapter.toolCallIndexById \cup adapter'.toolCallIndexById :
                    (e[1] = lastEvent'.id) <=> (e[2] = lastEvent'.index)]_vars

\* Three events of one connection: c2 first, then c1, then c2 again, which
\* got its index 0 back.
C24RepeatedIdSameIndex ==
    /\ phase = "streaming"
    /\ lines = 3
    /\ adapter.toolCallIndexById = {<<"c2", 0>>, <<"c1", 1>>}
    /\ lastEvent.type = "tool_call"
    /\ lastEvent.id = "c2"
    /\ lastEvent.index = 0

(***************************************************************************)
(* C25: the warning of the protocol fallback.                              *)
(***************************************************************************)
\* C25: the warning that the items protocol is not supported is shown at most
\* once since the provider was constructed: a later turn that falls back to
\* the chat protocol again does not show it again.
C25WarningShownOnce == warnings.session <= 1

(***************************************************************************)
(* C26: a done event and the lines after it.                               *)
(***************************************************************************)
\* C26: a done event ends the event loop of the turn.  The last event stays
\* the done event for the rest of the stream: no later line of the stream is
\* parsed, no part is reported and the turn does not fail.
C26DoneEndsLoop ==
    [][(phase = "streaming" /\ lastEvent.type = "done" /\ turns' = turns)
          => /\ lines' = lines
             /\ lastEvent' = lastEvent
             /\ progress' = progress
             /\ outcome' # "failed"]_vars

(***************************************************************************)
(* C27: the pending calls after a done or continuation-marker event.       *)
(***************************************************************************)
\* C27: when a line has yielded a done event or a continuation marker, no
\* call is pending any more: no structured tool-call buffer remains, emitted
\* or dropped, and no inline call is open.
C27NoPendingCallAfterDone ==
    [][(lines' = lines + 1 /\ lastEvent'.type \in {"done", "stateful_marker"})
          => /\ toolCallBuffers' = <<>>
             /\ ~textToolActive'.active]_vars

(***************************************************************************)
(* C28: the tool_calls array of a chat-protocol chunk.                     *)
(***************************************************************************)
\* The entries of delta.tool_calls for an index: a whole call, the opening
\* fragment of a call, and a closing fragment.
ParallelEntries(i) ==
    {ChatToolCall(i, "call_" \o ToString(i), "f", "{}"),
     ChatToolCall(i, "call_" \o ToString(i), "f", "{"),
     ChatToolCall(i, "", "", "}")}

\* Chunks whose tool_calls array has one entry, or two entries of two
\* parallel calls in either order.
ParallelLines ==
    {ChatChunk("", <<e>>, "") : e \in ParallelEntries(0) \cup ParallelEntries(1)}
    \cup {ChatChunk("", <<e0, e1>>, "") : e0 \in ParallelEntries(0), e1 \in ParallelEntries(1)}
    \cup {ChatChunk("", <<e1, e0>>, "") : e0 \in ParallelEntries(0), e1 \in ParallelEntries(1)}

NextParallel ==
    \/ StartTurn("m1", TRUE)
    \/ PrepareInformation
    \/ ResponseOk(TRUE)
    \/ BeginRead
    \/ ReadChunk
    \/ \E line \in ParallelLines \cup {DoneLine} : ProcessLine(line)
    \/ EndStream

SpecParallel == Init /\ [][NextParallel]_vars

\* The step has handled the delta of entry e, which carries e's index, id,
\* name and fragment: the call of the index is reported with them when the
\* name is known and the arguments are a whole object, else the fragment is
\* in the buffer of the index.
EntryReconstructed(e) ==
    LET buf == BufferGet(toolCallBuffers, e.index)
        id == IF e.id # "" THEN e.id ELSE buf.id
        name == IF e.name # "" THEN e.name ELSE buf.name
        args == buf.args \o e.args
    IN  IF name # "" /\ IsJSONObjectText(args)
        THEN \E k \in StructuredCalls(progress', e.index) :
                 /\ k > Len(progress)
                 /\ progress'[k].name = name
                 /\ progress'[k].input = JSONStringify(args)
                 /\ id # "" => progress'[k].callId = id
        ELSE BufferGet(toolCallBuffers', e.index) =
                 [index |-> e.index, id |-> id, name |-> name, args |-> args]

\* C28: a chunk whose tool_calls array has n >= 1 entries yields the delta of
\* each of its entries, with the entry's index, id, name and fragment: each
\* entry whose index is not completed is reconstructed by the step.
C28EveryEntryYieldsDelta ==
    [][\A line \in ParallelLines :
           ProcessLine(line)
               => \A k \in 1..Len(line.json.toolCalls) :
                      line.json.toolCalls[k].index \notin completedToolCallIndices
                          => EntryReconstructed(line.json.toolCalls[k])]_vars

(***************************************************************************)
(* C29: the continuation marker of a completed response.                   *)
(***************************************************************************)
\* data: {"type":"response.completed","response":{"id":rid}}, and with no
\* id for rid = "".
CompletedLine(rid) == [ResponsesLine("response.completed") EXCEPT !.json.responseId = rid]

\* The parts reported by the step.
ReportedByStep == SubSeq(progress', Len(progress) + 1, Len(progress'))

\* C29: for the items parser a response.completed event (a data line of that
\* type that follows a data line, so that no `event:` marker names another
\* type for it) with turn id R yields a stateful_marker event with marker R, one without id yields
\* done; for a stateful_marker event the step reports the data part whose
\* payload is the model id, one backslash and the marker, then only what the
\* silent flush of the two reconstructors reports, and does not fail the
\* turn; for the done event it reports no data part.
C29MarkerReported ==
    /\ [][\A rid \in {"r1", ""} :
              (/\ ProcessLine(CompletedLine(rid))
               /\ adapter.kind = "responses"
               /\ DataLineHandled)
                  => IF rid # ""
                     THEN lastEvent'.type = "stateful_marker" /\ lastEvent'.marker = rid
                     ELSE lastEvent'.type = "done"]_vars
    /\ [][(lines' = lines + 1 /\ lastEvent'.type = "stateful_marker")
          => /\ ReportedByStep # <<>>
             /\ ReportedByStep[1]
                    = DataPart(modelId \o "\\" \o lastEvent'.marker, "stateful_marker")
             /\ \A k \in 2..Len(ReportedByStep) : ReportedByStep[k].kind = "toolcall"
             /\ phase' = "streaming"
             /\ outcome' = outcome]_vars
    /\ [][(lines' = lines + 1 /\ lastEvent'.type = "done")
          => \A k \in 1..Len(ReportedByStep) : ReportedByStep[k].kind = "toolcall"]_vars

(***************************************************************************)
(* C30: the whitespace hint before a tool call.                            *)
(***************************************************************************)
\* The places of the single-space text parts.
HintParts(parts) == {k \in 1..Len(parts) : parts[k] = TextPart(" ")}

\* parts holds visible text of the model: a text part that is no hint.
HasVisibleText(parts) ==
    \E k \in 1..Len(parts) : parts[k].kind = "text" /\ parts[k] # TextPart(" ")

\* C30: the sink of a turn holds at most one single-space text part.  A step
\* reports one exactly when it handles a structured tool-call delta, visible
\* text has been reported in the turn and no hint has: the hint is then the
\* first part the step reports, before the tool-call parts of the delta; a
\* delta that no visible text preceded, and any other event, reports none.
C30WhitespaceHint ==
    /\ [](Cardinality(HintParts(progress)) <= 1)
    /\ [][(turns' = turns)
          => IF /\ lines' = lines + 1
                /\ lastEvent'.type = "tool_call"
                /\ HasVisibleText(progress)
                /\ HintParts(progress) = {}
             THEN /\ HintParts(progress') = {Len(progress) + 1}
                  /\ \A k \in 2..Len(ReportedByStep) : ReportedByStep[k].kind = "toolcall"
             ELSE HintParts(progress') = HintParts(progress)]_vars

\* Text, then the delta of a whole call with the hint before its part, then
\* the delta of a second call with no second hint.
C30HintBeforeFirstCall ==
    /\ Len(progress) = 4
    /\ progress[1] = TextPart("hi")
    /\ progress[2] = TextPart(" ")
    /\ progress[3].kind = "toolcall"
    /\ progress[4].kind = "toolcall"
    /\ progress[3].index # progress[4].index

(***************************************************************************)
(* C31, C32: the text segments of the items protocol.                      *)
(***************************************************************************)
Segments == {0, 1}

\* The text of a segment, and the two fragments its deltas deliver it in.
SegmentText(n) == IF n = 0 THEN "ab" ELSE "cd"

SegmentFragments(n) == IF n = 0 THEN {"a", "b"} ELSE {"c", "d"}

\* data: {"type":"response.output_text.delta","output_index":n,"delta":text}
SegmentDelta(n, text) ==
    [ResponsesLine("response.output_text.delta") EXCEPT
        !.json.deltaText = text, !.json.hasOutputIndex = TRUE, !.json.outputIndex = n]

\* data: {"type":"response.output_text.done","output_index":n,"text":...}
SegmentDone(n) ==
    [ResponsesLine("response.output_text.done") EXCEPT
        !.json.text = SegmentText(n), !.json.hasOutputIndex = TRUE, !.json.outputIndex = n]

\* The segment as an item: of output_item.added / output_item.done with its
\* output_index, and as the last entry of a trailing output array.
SegmentItem(n) ==
    [NoItem EXCEPT !.type = "message", !.id = "msg_" \o ToString(n), !.text = SegmentText(n)]

SegmentItemLine(type, n) ==
    [ResponsesLine(type) EXCEPT
        !.json.item = SegmentItem(n), !.json.hasOutputIndex = TRUE, !.json.outputIndex = n]

SegmentOutputLine(n) ==
    [ResponsesLine("response.output") EXCEPT !.json.lastOutput = SegmentItem(n)]

SegmentLines ==
    UNION {{SegmentDelta(n, f) : f \in SegmentFragments(n)}
           \cup {SegmentDone(n),
                 SegmentItemLine("response.output_item.added", n),
                 SegmentItemLine("response.output_item.done", n),
                 SegmentOutputLine(n)} : n \in Segments}

NextSegments ==
    \/ StartTurn("m3", TRUE)
    \/ PrepareInformation
    \/ ResponseOk(TRUE)
    \/ BeginRead
    \/ ReadChunk
    \/ \E line \in SegmentLines : ProcessLine(line)
    \/ EndStream

SpecSegments == Init /\ [][NextSegments]_vars

\* The texts surfaced in the stream hold a delta of segment n.
DeltaSeen(n) == \E k \in 1..Len(textDeltas) : textDeltas[k] \in SegmentFragments(n)

\* C31: the output_text.done event of a segment is surfaced as the text of
\* the segment exactly when no output_text.delta of that segment was
\* surfaced before it in the stream, whatever was seen of other segments;
\* otherwise it yields skip.
C31DoneSurfacedPerSegment ==
    [][\A n \in Segments :
           ProcessLine(SegmentDone(n))
               => IF DeltaSeen(n)
                  THEN lastEvent' = SkipEvent
                  ELSE lastEvent' = TextEvent(SegmentText(n))]_vars

\* How often the stream has surfaced the content of segment n: once for each
\* text event with the whole text, and once for its delivery through deltas.
TimesSurfaced(n) ==
    Cardinality({k \in 1..Len(textDeltas) : textDeltas[k] = SegmentText(n)})
        + (IF DeltaSeen(n) THEN 1 ELSE 0)

\* C32: the content of a text item is surfaced at most once in a stream,
\* whichever of output_text.delta, output_text.done, output_item.added,
\* output_item.done and the trailing output array carry it.
C32ItemSurfacedOnce == \A n \in Segments : TimesSurfaced(n) <= 1

(***************************************************************************)
(* C33: the `event:` marker and the data lines after it.                   *)
(***************************************************************************)
\* data: {"type":type,"delta":text}: read as response.output_text.delta it
\* yields the text, read as response.done it yields done.
TypedLine(type, text) == [ResponsesLine(type) EXCEPT !.json.deltaText = text]

TypedLines ==
    {TypedLine("response.done", "hi"), TypedLine("response.output_text.delta", "ho")}

MarkerLines ==
    {EventLine("response.output_text.delta"), EventLine("response.done"),
     EventLine("message")}

NextEventTypes ==
    \/ StartTurn("m3", TRUE)
    \/ PrepareInformation
    \/ ResponseOk(TRUE)
    \/ BeginRead
    \/ ReadChunk
    \/ \E line \in TypedLines \cup MarkerLines : ProcessLine(line)
    \/ EndStream

SpecEventTypes == Init /\ [][NextEventTypes]_vars

\* The line handled last was an `event:` line: of the lines above only those
\* yield skip.
MarkerJustRead == lines > 0 /\ lastEvent = SkipEvent

\* The event a data line of TypedLines yields when dispatched on type.
EventOfType(type, line) ==
    IF type = "response.done" THEN DoneEvent ELSE TextEvent(line.json.deltaText)

\* C33: a data line that directly follows an `event:` marker other than
\* message is dispatched on the marker's type, whatever its JSON type; every
\* other data line, also one that comes after a data line the marker was
\* applied to, is dispatched on its own JSON type.
C33MarkerAppliesOnce ==
    [][\A line \in TypedLines :
           ProcessLine(line)
               => lastEvent' =
                      EventOfType(IF MarkerJustRead /\ adapter.lastSseEventType # "message"
                                  THEN adapter.lastSseEventType
                                  ELSE line.json.type,
                                  line)]_vars

(***************************************************************************)
(* C34: the two tool-call channels.                                        *)
(***************************************************************************)
\* Both channels with the same call: foo {"x":1} as one structured delta, a
\* structured call that stays in its buffer, the forced flush, and foo
\* {"x":1} inline, with and without an index, and a plain text.
ChannelLines ==
    {ToolDelta(0, "call_0", "foo", CallJson),
     ToolDelta(1, "call_1", "bar", "{"),
     FinishLine("tool_calls"),
     TextDelta(InlineCall("foo", CallJson)),
     TextDelta(InlineCall("foo:0", CallJson)),
     TextDelta("b")}

NextChannels ==
    \/ StartTurn("m1", TRUE)
    \/ PrepareInformation
    \/ ResponseOk(TRUE)
    \/ BeginRead
    \/ ReadChunk
    \/ \E line \in ChannelLines : ProcessLine(line)
    \/ EndStream

SpecChannels == Init /\ [][NextChannels]_vars

\* The state of a turn that handles the text events deltas and nothing else.
RECURSIVE TextEventsOnly(_, _)
TextEventsOnly(t, deltas) ==
    IF deltas = <<>> THEN t
    ELSE TextEventsOnly(onText(t, TextEvent(Head(deltas))), Tail(deltas))

\* The calls of the inline channel in order: name and arguments.
RECURSIVE InlineCallsOf(_)
InlineCallsOf(parts) ==
    IF parts = <<>> THEN <<>>
    ELSE IF Head(parts).kind = "toolcall" /\ Head(parts).channel = "inline"
    THEN <<[name |-> Head(parts).name, input |-> Head(parts).input]>>
             \o InlineCallsOf(Tail(parts))
    ELSE InlineCallsOf(Tail(parts))

\* C34: the inline calls a turn has reported are those a turn reports that
\* receives the same text deltas and no structured tool-call delta and no
\* finish: what the structured channel has buffered or reported does not
\* change them.
C34ChannelsIndependent ==
    InlineCallsOf(progress) = InlineCallsOf(TextEventsOnly(FreshTurn, textDeltas).progress)

(***************************************************************************)
(* C35: what a structured tool call is emitted from.                       *)
(***************************************************************************)
\* The places of the structured tool-call parts the step reports.
NewStructuredCalls ==
    {k \in (Len(progress) + 1)..Len(progress') :
         progress'[k].kind = "toolcall" /\ progress'[k].channel = "structured"}

\* The buffer of index i as the step emits from it: the buffer before the
\* step, with the id, name and fragment of the step's delta when the step
\* handles a delta for i.
SourceBuffer(i) ==
    LET buf == BufferGet(toolCallBuffers, i)
    IN  IF lines' = lines + 1 /\ lastEvent'.type = "tool_call" /\ lastEvent'.index = i
        THEN [buf EXCEPT !.id = IF lastEvent'.id # "" THEN lastEvent'.id ELSE @,
                         !.name = IF lastEvent'.name # "" THEN lastEvent'.name ELSE @,
                         !.args = @ \o lastEvent'.args]
        ELSE buf

\* C35: every structured tool-call part a step reports, on a delta, on
\* finish, on done or on a continuation marker, comes from a buffer with a
\* name received from upstream, which is the part's name, and with arguments
\* that parse as a JSON object, which are the part's arguments.
C35EmittedFromNamedBuffer ==
    [][(turns' = turns)
          => \A k \in NewStructuredCalls :
                 /\ SourceBuffer(progress'[k].index).name # ""
                 /\ progress'[k].name = SourceBuffer(progress'[k].index).name
                 /\ IsJSONObjectText(SourceBuffer(progress'[k].index).args)
                 /\ progress'[k].input = JSONStringify(SourceBuffer(progress'[k].index).args)]_vars

(***************************************************************************)
(* C36: the inline tokenizer and the split of the text into deltas.        *)
(***************************************************************************)
\* A text stream with an inline call between two letters.
SplitStream == "a" \o InlineCall("foo", CallJson) \o "b"

\* Where the stream is cut into deltas: before BEGIN, inside and after it,
\* inside and after the header, inside and after ARG_BEGIN, inside and after
\* the arguments, inside and after END.
CutPoints ==
    LET b == 1 + Len(BEGIN)
        h == b + Len("foo")
        a == h + Len(ARG_BEGIN)
        j == a + Len(CallJson)
        e == j + Len(END)
    IN  {1, 5, b, b + 2, h, h + 6, a, a + 3, j, j + 6, e}

\* The next delta of the stream: from the end of the deltas received so far
\* up to a later cut point or the end of the stream.
SplitDelta ==
    \E i \in CutPoints \cup {0}, j \in CutPoints \cup {Len(SplitStream)} :
        /\ i < j
        /\ Len(Concat(textDeltas)) = i
        /\ ProcessLine(TextDelta(SubSeq(SplitStream, i + 1, j)))

NextSplit ==
    \/ StartTurn("m1", TRUE)
    \/ PrepareInformation
    \/ ResponseOk(TRUE)
    \/ BeginRead
    \/ ReadChunk
    \/ SplitDelta
    \/ EndStream

SpecSplit == Init /\ [][NextSplit]_vars

\* C36: when a turn has ended whose text deltas are the stream cut at any of
\* the cut points, the visible text and the tool calls the host has seen are
\* those of a turn that received the stream as one delta.
C36SplitInvariance ==
    (phase = "idle" /\ outcome = "completed" /\ Concat(textDeltas) = SplitStream)
        => Output(progress) = Output(TextEventsOnly(FreshTurn, <<SplitStream>>).progress)

(***************************************************************************)
(* C37: the input items the items-protocol builder makes of a conversation. *)
(***************************************************************************)
\* A request message: its role and its parts.
RoledMessage(role, content) == [role |-> role, content |-> content]

\* One content item of a message item; image_url is "" for a text item.
ContentItem(type, text, url) == [type |-> type, text |-> text, image_url |-> url]

\* Buffer.from(part.data).toString("base64"), for the one-byte data used here.
Base64(data) == IF data = "x" THEN "eA==" ELSE IF data = "y" THEN "eQ==" ELSE ""

\* tryDataPartToDataUrl: "" stands for undefined.
tryDataPartToDataUrl(part) ==
    IF ~StartsWith(part.mime, "image/") THEN ""
    ELSE "data:" \o part.mime \o ";base64," \o Base64(part.value)

\* The loop over msg.content of convertMessagesToItems, from part k on: text
\* parts gather in pendingText, a marker part is ignored, an image of a user
\* or system message first flushes pendingText as an input_text item.
RECURSIVE ContentOfParts(_, _, _, _, _)
ContentOfParts(parts, k, role, pendingText, contentItems) ==
    IF k > Len(parts) THEN [pendingText |-> pendingText, contentItems |-> contentItems]
    ELSE IF parts[k].kind = "text"
    THEN ContentOfParts(parts, k + 1, role, pendingText \o parts[k].value, contentItems)
    ELSE IF parts[k].mime = "stateful_marker"
             \/ tryDataPartToDataUrl(parts[k]) = ""
             \/ role = "assistant"
    THEN ContentOfParts(parts, k + 1, role, pendingText, contentItems)
    ELSE ContentOfParts(parts, k + 1, role, "",
             (IF pendingText # ""
              THEN Append(contentItems, ContentItem("input_text", pendingText, ""))
              ELSE contentItems)
             \o <<ContentItem("input_image", "", tryDataPartToDataUrl(parts[k]))>>)

\* The message item of a message's role and gathered content: a system
\* message of a model without the system role becomes a user message, the
\* marker goes in front of the pending text or, when there is none, in front
\* of the content; an assistant's items are output_text items.
MessageItemOf(role, gathered, supportsSystem) ==
    LET downgraded == role = "system" /\ ~supportsSystem
        itemRole == IF downgraded THEN "user" ELSE role
        withText ==
            IF gathered.pendingText = "" THEN gathered.contentItems
            ELSE Append(gathered.contentItems,
                        ContentItem(IF itemRole = "assistant" THEN "output_text"
                                    ELSE "input_text",
                                    IF downgraded
                                    THEN "[System]: " \o gathered.pendingText
                                    ELSE gathered.pendingText,
                                    ""))
        content ==
            IF downgraded /\ gathered.pendingText = "" /\ withText # <<>>
            THEN <<ContentItem("input_text", "[System]:", "")>> \o withText
            ELSE withText
    IN  IF content = <<>> THEN <<>>
        ELSE <<[type |-> "message", role |-> itemRole,
                content |-> IF itemRole = "assistant"
                            THEN [c \in DOMAIN content |->
                                     ContentItem("output_text", content[c].text, "")]
                            ELSE content]>>

\* The items of messages k.. of convertMessagesToItems.
RECURSIVE ItemsOfMessages(_, _, _)
ItemsOfMessages(messages, k, supportsSystem) ==
    IF k > Len(messages) THEN <<>>
    ELSE MessageItemOf(messages[k].role,
                       ContentOfParts(messages[k].content, 1, messages[k].role, "", <<>>),
                       supportsSystem)
         \o ItemsOfMessages(messages, k + 1, supportsSystem)

\* The leading item made of config.instructions.
InstructionsItem(config) ==
    IF Trim(config.instructions) = "" THEN <<>>
    ELSE <<[type |-> "message",
            role |-> IF config.supportsSystemRole THEN "system" ELSE "user",
            content |-> <<ContentItem("input_text",
                                      IF config.supportsSystemRole
                                      THEN Trim(config.instructions)
                                      ELSE "[System]: " \o Trim(config.instructions),
                                      "")>>]>>

\* ResponsesAdapter.convertMessagesToItems
convertMessagesToItems(messages, config) ==
    InstructionsItem(config) \o ItemsOfMessages(messages, 1, config.supportsSystemRole)

\* The parts of each message, which is what the scan for a marker reads.
ContentsOf(messages) == [k \in DOMAIN messages |-> messages[k].content]

\* The messages ResponsesAdapter.buildRequest converts: those after the last
\* marker of this model when continuation is on.
effectiveMessages(messages, config, id) ==
    LET stateful == IF config.supportsStatefulResponses
                    THEN extractPreviousResponseId(ContentsOf(messages), id)
                    ELSE NoStateful
    IN  IF stateful.found THEN SliceFrom(messages, stateful.sliceFromMessageIndex)
        ELSE messages

\* The body of ResponsesAdapter.buildRequest for a call without tools and
\* without model options: keys are the body's top-level fields.
ResponsesBody(messages, config, id) ==
    LET stateful == IF config.supportsStatefulResponses
                    THEN extractPreviousResponseId(ContentsOf(messages), id)
                    ELSE NoStateful
    IN  [endpoint |-> "responses",
         url |-> EndpointFor(config.baseUrl, "/responses"),
         stream |-> TRUE,
         previous_response_id |-> stateful.previous_response_id,
         messages |-> effectiveMessages(messages, config, id),
         input |-> convertMessagesToItems(effectiveMessages(messages, config, id), config),
         keys |-> {"model", "input", "stream", "max_output_tokens", "temperature",
                   "store", "include"}
                  \cup (IF stateful.previous_response_id # ""
                        THEN {"previous_response_id"} ELSE {})]

\* config.instructions: none, blank, plain, and with blanks around it.
InstructionTexts == {"", "  ", "Be brief", " Be brief "}

\* The configurations of m1: with and without the system role.
ItemConfigs ==
    {[apiMode |-> "responses", supportsStatefulResponses |-> TRUE,
      fallbackToChatCompletions |-> FALSE, baseUrl |-> "https://h/v1",
      instructions |-> i, supportsSystemRole |-> s] :
        i \in InstructionTexts, s \in BOOLEAN}

\* The messages of a conversation: of each role; an assistant's answer that
\* ends with a marker of m1; system messages with text around an image and
\* with an image alone.
ItemMessages ==
    {RoledMessage("system", <<TextMessagePart("rules")>>),
     RoledMessage("user", <<TextMessagePart("hi"), DataMessagePart("x", "image/png")>>),
     RoledMessage("assistant", <<TextMessagePart("ok"),
                                 DataMessagePart("m1\\r1", "stateful_marker")>>),
     RoledMessage("system", <<TextMessagePart("s1"), DataMessagePart("y", "image/png"),
                              TextMessagePart("s2")>>),
     RoledMessage("system", <<DataMessagePart("y", "image/png")>>)}

MaxItemMessages == 3

ItemConversations ==
    UNION {[1..n -> ItemMessages] : n \in 1..MaxItemMessages}

\* The builder is given a conversation and a configuration of m1.
BuildItemsRequest ==
    /\ sent = <<>>
    /\ \E messages \in ItemConversations, config \in ItemConfigs :
          /\ call' = [DefaultCall EXCEPT !.messages = messages]
          /\ modelConfigInfo' = config
          /\ sent' = <<ResponsesBody(messages, config, "m1")>>
    /\ UNCHANGED <<modelConfig, toolCallBuffers, completedToolCallIndices,
                   hasEmittedAssistantText, emittedBeginToolCallsHint,
                   textToolParserBuffer, textToolActive, emittedTextToolCallKeys,
                   emittedTextToolCallIds, modelId, configInTable, adapter,
                   cancelRequested, phase, requests, lines, linesLeft,
                   thinkingSupported, progress, outcome, turns, lastEvent, textDeltas,
                   staleAtStart, warnings, second, response, reading, responseBody, buffer>>

NextItems == BuildItemsRequest

SpecItems == Init /\ [][NextItems]_vars

\* The text of a message's text parts, and of an item's text content.
RECURSIVE MessageText(_, _)
MessageText(parts, k) ==
    IF k > Len(parts) THEN ""
    ELSE (IF parts[k].kind = "text" THEN parts[k].value ELSE "") \o MessageText(parts, k + 1)

RECURSIVE ItemText(_, _)
ItemText(content, k) ==
    IF k > Len(content) THEN ""
    ELSE content[k].text \o ItemText(content, k + 1)

\* The item the request carries for the k-th message it converts (every
\* message of ItemMessages yields one item).
ItemOfMessage(k) ==
    sent[1].input[k + (IF Trim(modelConfigInfo.instructions) = "" THEN 0 ELSE 1)]

\* C37: the request has no top-level instructions field; non-blank
\* instructions are its first input item, a message item; without the system
\* role that item and the item of every system message have role user and a
\* text that begins with the [System]: marker and ends with the message's
\* text, with it they have role system and the text itself (the instructions
\* without the blanks around them).
C37InstructionsAndSystemItems ==
    sent # <<>> =>
        LET config == modelConfigInfo
            raw == Trim(config.instructions)
            converted == sent[1].messages
        IN  /\ "instructions" \notin sent[1].keys
            /\ raw # "" =>
                  /\ sent[1].input[1].type = "message"
                  /\ sent[1].input[1].role
                         = (IF config.supportsSystemRole THEN "system" ELSE "user")
                  /\ ItemText(sent[1].input[1].content, 1)
                         = (IF config.supportsSystemRole THEN raw
                            ELSE "[System]: " \o raw)
            /\ \A k \in 1..Len(converted) :
                  converted[k].role = "system" =>
                      IF config.supportsSystemRole
                      THEN /\ ItemOfMessage(k).role = "system"
                           /\ ItemText(ItemOfMessage(k).content, 1)
                                  = MessageText(converted[k].content, 1)
                      ELSE /\ ItemOfMessage(k).role = "user"
                           /\ StartsWith(ItemText(ItemOfMessage(k).content, 1), "[System]:")
                           /\ EndsWith(ItemText(ItemOfMessage(k).content, 1),
                                       MessageText(converted[k].content, 1))

(***************************************************************************)
(* C38: a chat-protocol chunk whose first choice carries several fields.   *)
(***************************************************************************)
\* data: {"choices":[{"delta":{"reasoning_content":..,"content":..,
\* "tool_calls":..},"finish_reason":..}]}
FullChunk(reasoning, content, toolCalls, finish) ==
    JsonLine([NoPayload EXCEPT !.hasChoice = TRUE, !.reasoning = reasoning,
                               !.content = content, !.toolCalls = toolCalls,
                               !.finish = finish])

\* Chunks with any of: reasoning content, a text, the opening or the closing
\* fragment of a call, a finish reason.
ChunkLines ==
    {FullChunk(r, c, t, f) :
        r \in {"", "think"},
        c \in {"", "hi"},
        t \in {<<>>, <<ChatToolCall(0, "call_0", "f", "{")>>, <<ChatToolCall(0, "", "", "}")>>},
        f \in {"", "stop", "tool_calls", "length"}}

NextChunks ==
    \/ StartTurn("m1", TRUE)
    \/ PrepareInformation
    \/ ResponseOk(TRUE)
    \/ BeginRead
    \/ ReadChunk
    \/ \E line \in ChunkLines : ProcessLine(line)
    \/ EndStream

SpecChunks == Init /\ [][NextChunks]_vars

\* The thinking parts the step reports.
NewThinking ==
    {k \in (Len(progress) + 1)..Len(progress') : progress'[k].kind = "thinking"}

\* The forced flush has acted in the step: the turn has failed on a buffer
\* that does not parse, or every index buffered before the step is completed.
ForcedFlushDone ==
    \/ outcome' = "failed"
    \/ \A k \in 1..Len(toolCallBuffers) :
           toolCallBuffers[k].index \in completedToolCallIndices'

\* C38: when a chunk is handled, each field of its first choice takes effect:
\* reasoning content is reported as a thinking part (where the host has such
\* parts), text content is appended to the visible text, the first tool-call
\* entry reaches the buffer of its index (or the index is completed), and on
\* a finish reason of stop or tool_calls the forced flush acts.
C38EveryFieldTakesEffect ==
    [][\A line \in ChunkLines :
           ProcessLine(line) =>
               /\ (line.json.reasoning # "" /\ thinkingSupported) => NewThinking # {}
               /\ line.json.content # ""
                      => VisibleText(progress')
                             = VisibleText(progress) \o line.json.content
               /\ line.json.toolCalls # <<>>
                      => \/ outcome' = "failed"
                         \/ line.json.toolCalls[1].index \in completedToolCallIndices'
                         \/ EndsWith(BufferGet(toolCallBuffers',
                                               line.json.toolCalls[1].index).args,
                                     BufferGet(toolCallBuffers,
                                               line.json.toolCalls[1].index).args
                                         \o line.json.toolCalls[1].args)
               /\ line.json.finish \in {"stop", "tool_calls"} => ForcedFlushDone]_vars

(***************************************************************************)
(* C39: the bytes of the response body, the read chunks and the lines.     *)
(***************************************************************************)
\* The line of a chat-protocol text delta as it is on the wire, and of the
\* sentinel.
TextWire(content) == "data: {\"choices\":[{\"delta\":{\"content\":\"" \o content \o "\"}}]}"

DoneWire == "data: [DONE]"

WireTexts == {"a", "b"}

\* What the parser reads in a line of the wire: the sentinel, a text delta,
\* another data line (a piece of a line is no JSON text) or no data line.
LineOfWire(s) ==
    IF ~StartsWith(s, "data:") THEN OtherLine
    ELSE IF Trim(Drop(s, 5)) = "[DONE]" THEN DoneLine
    ELSE IF \E c \in WireTexts : s = TextWire(c)
    THEN TextDelta(CHOOSE c \in WireTexts : s = TextWire(c))
    ELSE GarbageLine

\* s.split("\n")
RECURSIVE SplitLines(_)
SplitLines(s) ==
    IF IndexOf(s, "\n") = -1 THEN <<s>>
    ELSE <<Take(s, IndexOf(s, "\n"))>> \o SplitLines(Drop(s, IndexOf(s, "\n") + 1))

\* lines.pop(): the array without its last element.
WithoutLast(seq) == SubSeq(seq, 1, Len(seq) - 1)

\* The for loop over the lines of one chunk: each line is parsed and its
\* event routed; an Error thrown ends the loop.  s holds the provider's
\* fields, the adapter, and what the model observes of the lines.
RECURSIVE HandleLines(_, _)
HandleLines(s, wireLines) ==
    IF wireLines = <<>> \/ s.t.thrown # "" THEN s
    ELSE LET parsed == parseStreamEvent(s.adapter, LineOfWire(Head(wireLines)))
         IN  HandleLines(
                 [t |-> routeEvent(s.t, parsed.event, modelId, thinkingSupported),
                  adapter |-> parsed.adapter,
                  lines |-> s.lines + 1,
                  lastEvent |-> parsed.event,
                  textDeltas |-> IF parsed.event.type = "text"
                                 THEN Append(s.textDeltas, parsed.event.content)
                                 ELSE s.textDeltas],
                 Tail(wireLines))

\* The response arrives with a body of the given bytes.
ResponseWithBody(bytes) ==
    /\ phase = "requesting"
    /\ phase' = "streaming"
    /\ configInTable' = FALSE
    /\ response' = OkResponse
    /\ responseBody' = [bytes |-> bytes, read |-> 0]
    /\ buffer' = ""
    /\ UNCHANGED <<providerVars, modelConfig, modelConfigInfo, modelId, adapter,
                   cancelRequested, requests, lines, linesLeft, thinkingSupported,
                   progress, outcome, turns, lastEvent, textDeltas, staleAtStart, call,
                   sent, warnings, second, reading>>

\* reader.read() delivers the next n bytes: they are appended to buffer, the
\* text is split at the newlines, the piece after the last newline stays in
\* buffer and the lines before it are handled.
ReadBytes ==
    /\ phase = "streaming"
    /\ reading
    /\ reading' = FALSE
    /\ \E n \in 1..(Len(responseBody.bytes) - responseBody.read) :
          LET pieces == SplitLines(buffer \o SubSeq(responseBody.bytes,
                                                    responseBody.read + 1,
                                                    responseBody.read + n))
              s == HandleLines([t |-> This, adapter |-> adapter, lines |-> lines,
                                lastEvent |-> lastEvent, textDeltas |-> textDeltas],
                               WithoutLast(pieces))
          IN  /\ responseBody' = [responseBody EXCEPT !.read = @ + n]
              /\ buffer' = pieces[Len(pieces)]
              /\ adapter' = s.adapter
              /\ lines' = s.lines
              /\ lastEvent' = s.lastEvent
              /\ textDeltas' = s.textDeltas
              /\ IF s.t.thrown # ""
                 THEN /\ Commit(streamFinally(s.t))
                      /\ phase' = "idle"
                      /\ outcome' = "failed"
                 ELSE /\ Commit(s.t)
                      /\ UNCHANGED <<phase, outcome>>
    /\ UNCHANGED <<configVars, modelId, cancelRequested, requests, linesLeft,
                   thinkingSupported, turns, staleAtStart, call, sent, warnings, second,
                   response>>

\* The lines of a body, joined by newlines.
RECURSIVE JoinLines(_)
JoinLines(wireLines) ==
    IF Len(wireLines) = 1 THEN wireLines[1]
    ELSE wireLines[1] \o "\n" \o JoinLines(Tail(wireLines))

\* The lines of the bodies: two text deltas; a text delta and the sentinel.
WireLineSeqs == {<<TextWire("a"), TextWire("b")>>, <<TextWire("a"), DoneWire>>}

\* The bodies: each sequence of lines with and without the newline that
\* terminates the last line.
WireBodies ==
    {JoinLines(ls) \o "\n" : ls \in WireLineSeqs} \cup {JoinLines(ls) : ls \in WireLineSeqs}

NextBytes ==
    \/ StartTurn("m1", TRUE)
    \/ PrepareInformation
    \/ \E bytes \in WireBodies : ResponseWithBody(bytes)
    \/ BeginRead
    \/ ReadBytes
    \/ EndStream

SpecBytes == Init /\ [][NextBytes]_vars

\* The lines the stream has delivered: the lines of the bytes read so far,
\* and, once the stream has closed, the last line too when no newline
\* terminates it.
RECURSIVE TextsOfLines(_)
TextsOfLines(wireLines) ==
    IF wireLines = <<>> THEN <<>>
    ELSE (IF LineOfWire(Head(wireLines)).json.content # ""
          THEN <<LineOfWire(Head(wireLines)).json.content>> ELSE <<>>)
         \o TextsOfLines(Tail(wireLines))

DeliveredLines ==
    LET pieces == SplitLines(responseBody.bytes)
    IN  IF pieces[Len(pieces)] = "" THEN WithoutLast(pieces) ELSE pieces

\* C39: when the turn has ended at the close of the stream, every line of
\* the body has been fed to the parser once and in order, however the bytes
\* were cut into chunks: as many lines have been handled as the body has,
\* the text events are those of its text lines in order, and the last line,
\* terminated by a newline or not, is the line the last event was parsed of.
C39EveryLineFedOnce ==
    (phase = "idle" /\ outcome = "completed" /\ responseBody.bytes # "")
        => /\ lines = Len(DeliveredLines)
           /\ textDeltas = TextsOfLines(DeliveredLines)
           /\ lastEvent = ChatParseStreamEvent(
                              LineOfWire(DeliveredLines[Len(DeliveredLines)]))

(***************************************************************************)
(* C40: function-call deltas of the items protocol without a call id.      *)
(***************************************************************************)
\* A function-call-arguments delta: its call id ("" when it carries none),
\* its name and its fragment of the arguments.
ArgumentsDeltaLine(callId, name, args) ==
    [ResponsesLine("response.function_call_arguments.delta") EXCEPT
        !.json.callId = callId, !.json.name = name, !.json.args = args]

\* Deltas of the calls c1 and c2 and deltas that carry no call id, each with
\* an opening or a closing fragment.
RoutingLines ==
    {ArgumentsDeltaLine(c, "f", a) : c \in {"c1", "c2"}, a \in {"{", "}"}}
    \cup {ArgumentsDeltaLine("", "", a) : a \in {"{", "}"}}

NextRouting ==
    \/ StartTurn("m3", TRUE)
    \/ PrepareInformation
    \/ ResponseOk(TRUE)
    \/ BeginRead
    \/ ReadChunk
    \/ \E line \in RoutingLines : ProcessLine(line)
    \/ EndStream

SpecRouting == Init /\ [][NextRouting]_vars

\* C40: when a line yields a function-call event without a call id, its index
\* is not one the connection has allocated to a call id, and the buffers of
\* the indices allocated to call ids are as they were.
C40NoIdNotRoutedToAllocatedIndex ==
    [][(lines' = lines + 1 /\ lastEvent'.type = "tool_call" /\ lastEvent'.id = "")
          => \A e \in adapter.toolCallIndexById :
                 /\ lastEvent'.index # e[2]
                 /\ BufferGet(toolCallBuffers', e[2]) = BufferGet(toolCallBuffers, e[2])]_vars

============================================================================
